---- MODULE Spec2Model ----
(***************************************************************************)
(* SmoothTrack viewer (src/eye_track.py): the frame loop of main().        *)
(* One frame drains the UDP socket into `pose`, processes the pygame       *)
(* events (the calibration state machine), computes the gaze point and     *)
(* renders.  The fields of a pose are whole numbers, the angles in degrees. *)
(* Everything computed from them is computed as the program computes it,   *)
(* in IEEE 754 doubles: each operation rounds its result to 53 bits.       *)
(***************************************************************************)
EXTENDS Integers, Sequences, FiniteSets, TLC

\* ------------------------------------------------------------ configuration
WINDOW_WIDTH == 1280
WINDOW_HEIGHT == 720
BOX_SCALE == 100
PacketSize == 48
BufSize == 1024
DefaultMin == -20
DefaultMax == 20

\* ------------------------------------------------------------------ bounds
\* Datagrams the socket buffer holds at most.
MaxPending == 2

\* The poses the tracker sends; the program starts with the pose
\* <<0, 0, 0, 0, 0, 0>>.
Payloads == {<<0, 0, 0, 90, 0, 0>>, <<0, 0, 0, 90, 90, 0>>,
             <<0, 0, 0, 0, 90, 0>>}

\* A tracker that also reports positions and roll.
Positions == {0, 5}
Depths == {0, 50}
ViewPayloads == {<<0, 5, 0, 0, 90, 180>>, <<5, 5, 50, 90, 90, 270>>}

\* The poses that differ from p in position only.
Twins(p) == {<<x, y, z, p[4], p[5], p[6]>> :
                x \in Positions, y \in Positions, z \in Depths}

\* Yaw and pitch of a tracker that reports the corners (-20,-20), (20,-20),
\* (20,20), (-20,20) and the pose yaw 10, pitch -5.
SceneSamples == {<<-20, -20>>, <<20, -20>>, <<20, 20>>, <<-20, 20>>, <<10, -5>>}
ScenePoses == {<<0, 0, 0, q[1], q[2], 0>> : q \in SceneSamples}
\* The corners (0,0), (90,0), (90,90), (0,90) and the pose yaw 9, pitch 63,
\* where 63/90 is no double and the product of its double with 720 is less
\* than 504.
QuarterTable == <<<<0, 0>>, <<90, 0>>, <<90, 90>>, <<0, 90>>>>
QuarterPose == <<0, 0, 0, 9, 63, 0>>

\* Yaw, pitch and roll of a tracker that reports quarter and eighth turns.
TurnAngles == {0, 45, 90, 180, 270}


VARIABLES
    pose,          \* line 65: <<x, y, z, yaw, pitch, roll>>
    running,       \* line 66
    calibrating,   \* line 69
    calib_step,    \* line 70
    calib_points,  \* line 71: sequence of <<yaw, pitch>>
    min_yaw, max_yaw, min_pitch, max_pitch,   \* lines 74-75
    pending,       \* datagrams waiting in the socket's receive buffer
    data,          \* line 83: the datagram the last recvfrom returned
    event,         \* line 94: the event the loop is handling
    frame,         \* what the drawing section computed and drew this frame
    exc,           \* the exception that ended main(), "" if none
    pc             \* position of main() in the frame loop

vars == <<pose, running, calibrating, calib_step, calib_points,
          min_yaw, max_yaw, min_pitch, max_pitch,
          pending, data, event, frame, exc, pc>>

calib == <<calibrating, calib_step, calib_points>>
limits == <<min_yaw, max_yaw, min_pitch, max_pitch>>

\* --------------------------------------------------------------- datagrams
\* A datagram is the sequence of 8-byte groups it holds (each written as the
\* double it encodes) plus the number of bytes left over.
\* Datagrams of 49, 40 and 1500 bytes.
Padded == [words |-> <<0, 0, 0, 90, 90, 0>>, extra |-> 1]
Cut == [words |-> <<0, 0, 0, 90, 0>>, extra |-> 0]
Oversized == [words |-> [i \in 1..187 |-> IF i \in {4, 5} THEN 90 ELSE 0],
              extra |-> 4]
Malformed == {Padded, Cut, Oversized}
Tracked == {[words |-> p, extra |-> 0] : p \in Payloads}
\* What the socket is sent in the sessions with a user, and in the sessions
\* without one.
Datagrams == Tracked \cup {Padded, Cut}
DrainDatagrams == Tracked \cup Malformed
NoData == [words |-> <<>>, extra |-> 0]

\* len(data)
DataLen(d) == 8 * Len(d.words) + d.extra

\* line 83: recvfrom(1024) returns the first 1024 bytes of a longer datagram
\* and discards the rest
Received(d) ==
    IF DataLen(d) <= BufSize THEN d
    ELSE [words |-> SubSeq(d.words, 1, BufSize \div 8), extra |-> BufSize % 8]

\* struct.unpack('dddddd', data): the i-th double is the i-th 8-byte group.
Unpack(d) == [i \in 1..6 |-> d.words[i]]

\* line 85: the length test that guards the decode
AcceptsAnyLongEnough(d) == DataLen(d) >= PacketSize
Accepts(d) == DataLen(d) = PacketSize

\* ------------------------------------------------------------------ events
Quit == [type |-> "QUIT", key |-> ""]
KeyC == [type |-> "KEYDOWN", key |-> "K_c"]
KeySpace == [type |-> "KEYDOWN", key |-> "K_SPACE"]
KeyOther == [type |-> "KEYDOWN", key |-> "K_a"]
Motion == [type |-> "MOUSEMOTION", key |-> ""]
Events == {Quit, KeyC, KeySpace, KeyOther, Motion}
NoEvent == [type |-> "", key |-> ""]

\* ------------------------------------------------- naturals of any size
\* Integers are kept below 2^31 and a double's significand has 53 bits: a
\* natural number is written as the sequence of its digits in base 2^15,
\* lowest first, without leading zeros (zero is <<>>).
LimbBits == 15
Base == 2^LimbBits

Abs(n) == IF n < 0 THEN -n ELSE n
Min2(a, b) == IF a <= b THEN a ELSE b
Max2(a, b) == IF a >= b THEN a ELSE b

Limb(a, i) == IF i <= Len(a) THEN a[i] ELSE 0

\* a without its leading zeros
BTrim(a) ==
    SubSeq(a, 1, IF \A i \in 1..Len(a) : a[i] = 0 THEN 0
                 ELSE CHOOSE i \in 1..Len(a) :
                          a[i] # 0 /\ \A j \in (i + 1)..Len(a) : a[j] = 0)

\* a number below 2^31
BFromInt(n) ==
    BTrim(<<n % Base, (n \div Base) % Base, n \div (Base * Base)>>)
BToInt(a) == Limb(a, 1) + Base * Limb(a, 2) + Base * Base * Limb(a, 3)

\* -1, 0, 1 as a < b, a = b, a > b; i is the highest digit they differ in
BCmpAt(a, b, i) == IF a[i] < b[i] THEN -1 ELSE 1
BCmp(a, b) ==
    IF Len(a) < Len(b) THEN -1
    ELSE IF Len(a) > Len(b) THEN 1
    ELSE IF a = b THEN 0
    ELSE BCmpAt(a, b, CHOOSE i \in 1..Len(a) :
                          a[i] # b[i] /\ \A j \in (i + 1)..Len(a) : a[j] = b[j])

\* a + b.  Digit i receives a carry when a lower digit j overflows and the
\* digits between j and i are all Base - 1.
BCarry(a, b, i) ==
    \E j \in 1..(i - 1) :
        /\ Limb(a, j) + Limb(b, j) >= Base
        /\ \A k \in (j + 1)..(i - 1) : Limb(a, k) + Limb(b, k) = Base - 1
BAdd(a, b) ==
    BTrim([i \in 1..(Max2(Len(a), Len(b)) + 1) |->
              (Limb(a, i) + Limb(b, i) + IF BCarry(a, b, i) THEN 1 ELSE 0)
                % Base])

\* a - b, for a >= b.  Digit i lends when a lower digit j is short and the
\* digits between j and i are equal.
BBorrow(a, b, i) ==
    \E j \in 1..(i - 1) :
        /\ a[j] < Limb(b, j)
        /\ \A k \in (j + 1)..(i - 1) : a[k] = Limb(b, k)
BSub(a, b) ==
    BTrim([i \in 1..Len(a) |->
              (a[i] - Limb(b, i) - IF BBorrow(a, b, i) THEN 1 ELSE 0) % Base])

\* a * d, for d <= Base: the low halves of the digit products plus their
\* high halves one digit up
BMulSmall(a, d) ==
    BAdd([i \in 1..Len(a) |-> (a[i] * d) % Base],
         [i \in 1..(Len(a) + 1) |-> IF i = 1 THEN 0 ELSE (a[i - 1] * d) \div Base])

\* a * Base^k
BShiftLimbs(a, k) == IF a = <<>> THEN a ELSE [i \in 1..k |-> 0] \o a

RECURSIVE BMul(_, _)
BMul(a, b) ==
    IF a = <<>> \/ b = <<>> THEN <<>>
    ELSE BAdd(BMulSmall(a, b[1]), BShiftLimbs(BMul(a, Tail(b)), 1))

\* a * 2^s
BShl(a, s) == BShiftLimbs(BMulSmall(a, 2^(s % LimbBits)), s \div LimbBits)

\* a \div (Base^k * 2^r), for r < LimbBits
BShrBy(a, k, r) ==
    IF k >= Len(a) THEN <<>>
    ELSE BTrim([i \in 1..(Len(a) - k) |->
                   (a[i + k] \div 2^r)
                     + (Limb(a, i + k + 1) % 2^r) * 2^(LimbBits - r)])

\* a \div 2^s
BShr(a, s) == BShrBy(a, s \div LimbBits, s % LimbBits)

\* a % 2^s = 0
BLowZero(a, s) ==
    /\ \A i \in 1..Min2(s \div LimbBits, Len(a)) : a[i] = 0
    /\ Limb(a, s \div LimbBits + 1) % 2^(s % LimbBits) = 0

\* bit i of a, bit 0 the lowest
BBit(a, i) == (Limb(a, i \div LimbBits + 1) \div 2^(i % LimbBits)) % 2

\* the number of bits of a
BBitLen(a) ==
    IF a = <<>> THEN 0
    ELSE LimbBits * (Len(a) - 1)
           + (CHOOSE k \in 1..LimbBits : a[Len(a)] \div 2^(k - 1) = 1)

\* the number of zero bits a # 0 ends with, a[k] its lowest digit that is
\* not zero
BTrailingZerosAt(a, k) ==
    LimbBits * (k - 1)
      + (CHOOSE t \in 0..(LimbBits - 1) : a[k] % 2^(t + 1) = 2^t)
BTrailingZeros(a) ==
    BTrailingZerosAt(a, CHOOSE i \in 1..Len(a) :
                           a[i] # 0 /\ \A j \in 1..(i - 1) : a[j] = 0)

\* [quo |-> a \div b, rem |-> a % b] for a divisor b whose highest digit is
\* Base/2 or more:
\* long division.  r is what is left of the digits above i, followed by
\* digit i, and q the digits of the quotient found so far.  The quotient of
\* the two highest digits of r by the highest digit of b is the next digit
\* of the quotient or exceeds it by 1 or 2.
BDigit(r, b, guess) ==
    CHOOSE d \in (guess - 2)..guess :
        /\ d >= 0
        /\ BCmp(BMulSmall(b, d), r) <= 0
        /\ BCmp(BMulSmall(b, d + 1), r) > 0
RECURSIVE BDivFrom(_, _, _, _, _)
BDivNext(a, b, i, q, r) ==
    IF i = 1 THEN [quo |-> q, rem |-> r]
    ELSE BDivFrom(a, b, i - 1, q, BTrim(<<a[i - 1]>> \o r))
BDivPut(a, b, i, q, r, d) ==
    BDivNext(a, b, i, <<d>> \o q, BSub(r, BMulSmall(b, d)))
BDivFrom(a, b, i, q, r) ==
    IF BCmp(r, b) < 0 THEN BDivNext(a, b, i, <<0>> \o q, r)
    ELSE BDivPut(a, b, i, q, r,
                 BDigit(r, b, Min2(Base - 1,
                                   (Limb(r, Len(b) + 1) * Base + r[Len(b)])
                                     \div b[Len(b)])))
BDivLong(a, b) ==
    IF Len(a) < Len(b) THEN [quo |-> <<>>, rem |-> a]
    ELSE BDivFrom(a, b, Len(a) - Len(b) + 1, <<>>,
                  BTrim(SubSeq(a, Len(a) - Len(b) + 1, Len(a))))

\* the same for any b # 0: both are first multiplied by the power of
\* two that brings the highest digit of b to Base/2 or more
BDivScaled(qr, s) == [quo |-> BTrim(qr.quo), rem |-> BShr(qr.rem, s)]
BDivBy(a, b, s) == BDivScaled(BDivLong(BShl(a, s), BShl(b, s)), s)
BDivMod(a, b) ==
    BDivBy(a, b, (LimbBits - (BBitLen(b) % LimbBits)) % LimbBits)

\* ------------------------------------------------------------- doubles
\* A Python float is an IEEE 754 binary64 number.  A finite double is
\* written [neg, man, exp] for (-1)^neg * man * 2^exp with man odd, so that
\* equal doubles are equal records; zero is man = <<>>.  Every operation
\* computes the exact result and rounds it to 53 bits, ties to even, as the
\* hardware does.  Not modelled: the sign of zero, which no line of the
\* program can observe, and exponents beyond the range of a double.
Precision == 53
Zero == [neg |-> FALSE, man |-> <<>>, exp |-> 0]

\* The value a division by zero would have produced: Python raises instead.
ZeroDivisionError == [neg |-> FALSE, man |-> <<>>, exp |-> 1024]
IsError(f) == f = ZeroDivisionError

\* (-1)^neg * m * 2^e, exactly; m ends with t zero bits
NormalBy(neg, m, e, t) == [neg |-> neg, man |-> BShr(m, t), exp |-> e + t]
Normal(neg, m, e) ==
    IF m = <<>> THEN Zero ELSE NormalBy(neg, m, e, BTrailingZeros(m))

\* the double nearest to (-1)^neg * m * 2^e, ties to the even significand:
\* m loses its sh lowest bits, q is what is left, `half` the highest bit lost
\* and `rest` whether a lower one is set
RoundUp(neg, q, e, half, rest) ==
    Normal(neg, IF half /\ (rest \/ q[1] % 2 = 1) THEN BAdd(q, <<1>>) ELSE q, e)
RoundBy(neg, m, e, sh) ==
    IF sh <= 0 THEN Normal(neg, m, e)
    ELSE RoundUp(neg, BShr(m, sh), e + sh,
                 BBit(m, sh - 1) = 1, ~BLowZero(m, sh - 1))
RoundD(neg, m, e) == RoundBy(neg, m, e, BBitLen(m) - Precision)

\* float(n)
D(n) == Normal(n < 0, BFromInt(Abs(n)), 0)
Half == [neg |-> FALSE, man |-> <<1>>, exp |-> -1]

FNeg(a) == IF a.man = <<>> THEN a ELSE [a EXCEPT !.neg = ~a.neg]

FMul(a, b) ==
    IF IsError(a) \/ IsError(b) THEN ZeroDivisionError
    ELSE RoundD(a.neg # b.neg, BMul(a.man, b.man), a.exp + b.exp)

\* a + b.  An operand more than 200 binary places below the other one only
\* decides on which side of the other one the sum lies.
Guard == 200
Lifted(a, floor) ==
    IF a.exp < floor THEN [a EXCEPT !.man = <<1>>, !.exp = floor] ELSE a
\* (-1)^xneg * mx * 2^e + (-1)^yneg * my * 2^e, c the comparison of mx and my
AddCompared(xneg, mx, yneg, my, e, c) ==
    IF xneg = yneg THEN RoundD(xneg, BAdd(mx, my), e)
    ELSE IF c = 0 THEN Zero
    ELSE IF c > 0 THEN RoundD(xneg, BSub(mx, my), e)
    ELSE RoundD(yneg, BSub(my, mx), e)
AddAt(xneg, mx, yneg, my, e) ==
    AddCompared(xneg, mx, yneg, my, e, BCmp(mx, my))
AddFrom(x, y, e) ==
    AddAt(x.neg, BShl(x.man, x.exp - e), y.neg, BShl(y.man, y.exp - e), e)
AddLifted(x, y) == AddFrom(x, y, Min2(x.exp, y.exp))
AddAbove(a, b, floor) == AddLifted(Lifted(a, floor), Lifted(b, floor))
FAdd(a, b) ==
    IF IsError(a) \/ IsError(b) THEN ZeroDivisionError
    ELSE IF a.man = <<>> THEN b
    ELSE IF b.man = <<>> THEN a
    ELSE AddAbove(a, b, Max2(a.exp, b.exp) - Guard)
FSub(a, b) == FAdd(a, IF IsError(b) THEN b ELSE FNeg(b))

\* a / b: the quotient of the significands to 56 bits and more, with one
\* more bit that tells whether anything is left
DivRound(neg, qr, e) ==
    IF qr.rem = <<>> THEN RoundD(neg, BMulSmall(qr.quo, 2), e)
    ELSE RoundD(neg, BAdd(BMulSmall(qr.quo, 2), <<1>>), e)
DivBy(a, b, t) ==
    DivRound(a.neg # b.neg, BDivMod(BShl(a.man, t), b.man),
             a.exp - b.exp - t - 1)
FDiv(a, b) ==
    IF IsError(a) \/ IsError(b) \/ b.man = <<>> THEN ZeroDivisionError
    ELSE IF a.man = <<>> THEN Zero
    ELSE DivBy(a, b, Precision + 3 + BBitLen(b.man) - BBitLen(a.man))

\* int(a): truncation toward zero
Signed(neg, n) == IF neg THEN -n ELSE n
Trunc(a) ==
    Signed(a.neg, BToInt(IF a.exp >= 0 THEN BShl(a.man, a.exp)
                         ELSE BShr(a.man, -a.exp)))

\* a <= b
NotPositive(d) == d.man = <<>> \/ d.neg
FLeq(a, b) == NotPositive(FSub(a, b))

\* ------------------------------------------------ sines and cosines
\* math.cos(math.radians(a)) and math.sin(math.radians(a)) are values of the C
\* library, which are not always the doubles nearest to the cosine and the
\* sine: they are tabulated here, for every whole number of degrees a from
\* MinAngle to MaxAngle (glibc 2.36, x86-64).  The angles of a pose are whole
\* numbers of degrees in that range.
MinAngle == -360
MaxAngle == 360
Pos(m, e) == [neg |-> FALSE, man |-> m, exp |-> e]
Neg(m, e) == [neg |-> TRUE, man |-> m, exp |-> e]

CosTable == <<
    Pos(<<1>>, 0), Pos(<<22469,6133,32129,127>>, -52),
    Pos(<<1383,29054,27657,255>>, -53), Pos(<<26141,23077,21271,255>>, -53),
    Pos(<<32763,29040,22550,127>>, -52), Pos(<<2769,13336,16807,127>>, -52),
    Pos(<<13283,5368,9791,127>>, -52), Pos(<<4003,4817,17136,63>>, -51),
    Pos(<<5241,21089,16666,253>>, -53), Pos(<<25691,10335,27794,252>>, -53),
    Pos(<<7191,6402,3630,252>>, -53), Pos(<<23393,26936,21242,125>>, -52),
    Pos(<<127,25844,13296,250>>, -53), Pos(<<17287,8526,23572,124>>, -52),
    Pos(<<14885,16115,12966,248>>, -53), Pos(<<16149,3729,9077,247>>, -53),
    Pos(<<15607,8077,30229,1>>, -46), Pos(<<28047,28283,13336,122>>, -52),
    Pos(<<21759,9864,15416,243>>, -53), Pos(<<13515,22525,1728,242>>, -53),
    Pos(<<2887,8489,4598,60>>, -51), Pos(<<14339,7679,32656,238>>, -53),
    Pos(<<19287,29487,11765,237>>, -53), Pos(<<13111,6188,27021,117>>, -52),
    Pos(<<16331,12031,30599,116>>, -52), Pos(<<15085,19467,60,29>>, -50),
    Pos(<<18201,28373,24949,28>>, -50), Pos(<<19227,3742,800,57>>, -51),
    Pos(<<9991,7898,1133,226>>, -53), Pos(<<14791,28582,29577,223>>, -53),
    Pos(<<2453,14870,23357,27>>, -50), Pos(<<15031,3899,28138,54>>, -51),
    Pos(<<10565,1435,3287,217>>, -53), Pos(<<3063,21591,22115,53>>, -51),
    Pos(<<30547,19880,3827,106>>, -52), Pos(<<1861,12843,23033,209>>, -53),
    Pos(<<29863,14127,3550,207>>, -53), Pos(<<7813,1873,3692,51>>, -51),
    Pos(<<12777,21492,28356,100>>, -52), Pos(<<8997,27179,31108,198>>, -53),
    Pos(<<20535,17822,3518,196>>, -53), Pos(<<3611,13473,19753,96>>, -52),
    Pos(<<24417,10291,4015,95>>, -52), Pos(<<6753,28772,26431,46>>, -51),
    Pos(<<9883,26277,2473,92>>, -52), Pos(<<15307,19710,633,181>>, -53),
    Pos(<<1841,1564,3753,11>>, -49), Pos(<<9995,7366,21230,43>>, -51),
    Pos(<<757,19313,27012,42>>, -51), Pos(<<10217,312,31967,83>>, -52),
    Pos(<<1415,10526,4535,41>>, -51), Pos(<<15711,1096,18121,80>>, -52),
    Pos(<<18747,25467,19966,157>>, -53), Pos(<<16051,10411,2118,154>>, -53),
    Pos(<<22167,570,20259,37>>, -51), Pos(<<2351,15903,11614,18>>, -50),
    Pos(<<32581,16904,25832,35>>, -51), Pos(<<30489,12000,14011,139>>, -53),
    Pos(<<7077,20395,31372,16>>, -50), Pos(<<24339,16891,27844,131>>, -53),
    Pos(<<1,0,0,128>>, -53), Pos(<<8433,23519,7291,248>>, -54),
    Pos(<<10297,29732,6052,120>>, -53), Pos(<<28415,11076,7260,116>>, -53),
    Pos(<<16569,30383,1826,28>>, -51), Pos(<<19499,30519,6234,108>>, -53),
    Pos(<<6857,16908,8164,208>>, -54), Pos(<<32723,8856,890,100>>, -53),
    Pos(<<19245,14267,16332,1>>, -47), Pos(<<27039,8142,24320,91>>, -53),
    Pos(<<1533,29834,18256,87>>, -53), Pos(<<19925,8193,22639,166>>, -54),
    Pos(<<31315,7063,18159,39>>, -52), Pos(<<21959,7943,22751,149>>, -54),
    Pos(<<3629,14949,4139,141>>, -54), Pos(<<24785,28772,18494,16>>, -51),
    Pos(<<14611,26057,23855,247>>, -55), Pos(<<25401,14029,5732,115>>, -54),
    Pos(<<22777,22660,29542,212>>, -55), Pos(<<12589,23926,22747,97>>, -54),
    Pos(<<23775,16133,14874,44>>, -53), Pos(<<10679,26536,3094,80>>, -54),
    Pos(<<20237,5773,8409,71>>, -54), Pos(<<12657,19535,26024,124>>, -55),
    Pos(<<22345,13944,2434,214>>, -56), Pos(<<16503,14530,8109,89>>, -55),
    Pos(<<10385,28010,14110,71>>, -55), Pos(<<25743,18671,6030,107>>, -56),
    Pos(<<30485,25851,24152,35>>, -55), Pos(<<7627,25969,30658,8>>, -54),
    Neg(<<17669,19614,29298,105>>, -104), Neg(<<28301,11145,15894,71>>, -57),
    Neg(<<23561,5103,31075,142>>, -57), Neg(<<25769,18671,6030,107>>, -56),
    Neg(<<5199,14005,23439,35>>, -54), Neg(<<20513,11824,10219,22>>, -53),
    Neg(<<5593,19870,16992,53>>, -54), Neg(<<25277,6302,19281,249>>, -56),
    Neg(<<7719,11547,16818,142>>, -55), Neg(<<21371,20304,6189,160>>, -55),
    Neg(<<29577,31766,26729,177>>, -55), Neg(<<19529,30557,13878,24>>, -52),
    Neg(<<11395,11330,14771,106>>, -54), Neg(<<25407,14029,5732,115>>, -54),
    Neg(<<14623,26057,23855,247>>, -55), Neg(<<839,16787,8443,66>>, -53),
    Neg(<<9097,28313,9226,35>>, -52), Neg(<<27367,20355,27759,74>>, -53),
    Neg(<<29865,14127,3550,79>>, -53), Neg(<<19931,8193,22639,166>>, -54),
    Neg(<<1529,29834,18256,87>>, -53), Neg(<<13521,4071,28544,45>>, -52),
    Neg(<<19267,28389,29467,95>>, -53), Neg(<<16363,4428,445,50>>, -52),
    Neg(<<6863,16908,8164,208>>, -54), Neg(<<19495,30519,6234,108>>, -53),
    Neg(<<743,23230,7307,112>>, -53), Neg(<<24067,22153,14520,232>>, -54),
    Neg(<<2575,7433,1513,30>>, -51), Neg(<<8425,23519,7291,248>>, -54),
    Neg(<<1,0,0,32>>, -51), Neg(<<28555,8445,30306,65>>, -52),
    Neg(<<23851,32089,21604,135>>, -53), Neg(<<7623,27576,28078,34>>, -51),
    Neg(<<8145,4226,31034,8>>, -49), Neg(<<18811,28920,27379,146>>, -53),
    Neg(<<23135,2282,15500,150>>, -53), Neg(<<24411,5205,1059,77>>, -52),
    Neg(<<18743,25467,19966,157>>, -53), Neg(<<31425,2192,3474,161>>, -53),
    Neg(<<2831,21052,9070,82>>, -52), Neg(<<5109,16540,32367,41>>, -51),
    Neg(<<3031,11716,9746,171>>, -53), Neg(<<9995,7366,21230,43>>, -51),
    Neg(<<1841,1564,3753,11>>, -49), Neg(<<7655,26239,16700,90>>, -52),
    Neg(<<10663,14761,618,23>>, -50), Neg(<<27011,16784,7423,187>>, -53),
    Neg(<<24417,10291,4015,95>>, -52), Neg(<<9095,11560,4938,24>>, -50),
    Neg(<<20537,17822,3518,196>>, -53), Neg(<<8999,27179,31108,198>>, -53),
    Neg(<<12777,21492,28356,100>>, -52), Neg(<<7813,1873,3692,51>>, -51),
    Neg(<<29865,14127,3550,207>>, -53), Neg(<<1863,12843,23033,209>>, -53),
    Neg(<<30547,19880,3827,106>>, -52), Neg(<<3063,21591,22115,53>>, -51),
    Neg(<<21667,17101,18027,108>>, -52), Neg(<<30063,7798,23508,109>>, -52),
    Neg(<<9813,26712,27893,110>>, -52), Neg(<<14791,28582,29577,223>>, -53),
    Neg(<<9991,7898,1133,226>>, -53), Neg(<<11373,14970,3200,228>>, -53),
    Neg(<<14537,30380,2990,230>>, -53), Neg(<<15085,19467,60,29>>, -50),
    Neg(<<32661,24062,28430,233>>, -53), Neg(<<26223,12376,21274,235>>, -53),
    Neg(<<31083,24165,21950,29>>, -50), Neg(<<14341,7679,32656,238>>, -53),
    Neg(<<2887,8489,4598,60>>, -51), Neg(<<23141,11262,864,121>>, -52),
    Neg(<<17493,7206,31164>>, -45), Neg(<<23327,23799,26673,244>>, -53),
    Neg(<<15607,8077,30229,1>>, -46), Neg(<<16149,3729,9077,247>>, -53),
    Neg(<<14885,16115,12966,248>>, -53), Neg(<<1807,17053,14376,249>>, -53),
    Neg(<<127,25844,13296,250>>, -53), Neg(<<23393,26936,21242,125>>, -52),
    Neg(<<7191,6402,3630,252>>, -53), Neg(<<30999,18967,6948,63>>, -51),
    Neg(<<5241,21089,16666,253>>, -53), Neg(<<4003,4817,17136,63>>, -51),
    Neg(<<13283,5368,9791,127>>, -52), Neg(<<2769,13336,16807,127>>, -52),
    Neg(<<32763,29040,22550,127>>, -52), Neg(<<26141,23077,21271,255>>, -53),
    Neg(<<1383,29054,27657,255>>, -53), Neg(<<22469,6133,32129,127>>, -52),
    Neg(<<1>>, 0), Neg(<<22469,6133,32129,127>>, -52),
    Neg(<<1383,29054,27657,255>>, -53), Neg(<<26141,23077,21271,255>>, -53),
    Neg(<<32763,29040,22550,127>>, -52), Neg(<<2769,13336,16807,127>>, -52),
    Neg(<<13283,5368,9791,127>>, -52), Neg(<<16011,19268,3008,254>>, -53),
    Neg(<<19005,10544,24717,126>>, -52), Neg(<<25691,10335,27794,252>>, -53),
    Neg(<<7191,6402,3630,252>>, -53), Neg(<<23393,26936,21242,125>>, -52),
    Neg(<<29697,28873,31335,1>>, -46), Neg(<<17287,8526,23572,124>>, -52),
    Neg(<<14885,16115,12966,248>>, -53), Neg(<<12229,9124,26845,61>>, -51),
    Neg(<<15607,8077,30229,1>>, -46), Neg(<<24281,18151,21313,7>>, -48),
    Neg(<<21759,9864,15416,243>>, -53), Neg(<<13515,22525,1728,242>>, -53),
    Neg(<<11547,1188,18393,240>>, -53), Neg(<<14341,7679,32656,238>>, -53),
    Neg(<<19287,29487,11765,237>>, -53), Neg(<<26223,12376,21274,235>>, -53),
    Neg(<<24549,22399,15299,58>>, -51), Neg(<<22375,24667,484,232>>, -53),
    Neg(<<7269,15190,1495,115>>, -52), Neg(<<19227,3742,800,57>>, -51),
    Neg(<<9441,21467,8333,28>>, -50), Neg(<<7395,30675,31172,111>>, -52),
    Neg(<<19627,20656,23019,221>>, -53), Neg(<<27357,15597,14248,219>>, -53),
    Neg(<<10565,1435,3287,217>>, -53), Neg(<<12251,20828,22926,214>>, -53),
    Neg(<<15273,26324,1913,53>>, -51), Neg(<<12521,5701,6975,26>>, -50),
    Neg(<<29863,14127,3550,207>>, -53), Neg(<<31253,7492,14768,204>>, -53),
    Neg(<<25553,10216,23945,201>>, -53), Neg(<<13413,19781,28464,24>>, -50),
    Neg(<<27143,26803,16823,24>>, -50), Neg(<<7223,26946,6738,193>>, -53),
    Neg(<<20219,15681,31869,2>>, -47), Neg(<<13505,24776,20095,93>>, -52),
    Neg(<<19769,19786,4947,184>>, -53), Neg(<<20211,13119,8350,45>>, -51),
    Neg(<<29457,25024,27280,177>>, -53), Neg(<<19989,14732,9692,87>>, -52),
    Neg(<<16763,9656,13506,21>>, -50), Neg(<<20435,624,31166,167>>, -53),
    Neg(<<5661,9336,18141,164>>, -53), Neg(<<7855,16932,9060,40>>, -51),
    Neg(<<18745,25467,19966,157>>, -53), Neg(<<16055,10411,2118,154>>, -53),
    Neg(<<23133,2282,15500,150>>, -53), Neg(<<18809,28920,27379,146>>, -53),
    Neg(<<32017,2083,5026,143>>, -53), Neg(<<30493,12000,14011,139>>, -53),
    Neg(<<23849,32089,21604,135>>, -53), Neg(<<30661,4222,31537,32>>, -51),
    Neg(<<32767,32767,32767,63>>, -52), Neg(<<26683,30455,1822,62>>, -52),
    Neg(<<20603,26696,12105,240>>, -54), Neg(<<24063,22153,14520,232>>, -54),
    Neg(<<741,23230,7307,112>>, -53), Neg(<<6225,28271,12469,216>>, -54),
    Neg(<<3433,8454,4082,104>>, -53), Neg(<<32683,17713,1780,200>>, -54),
    Neg(<<19265,28389,29467,95>>, -53), Neg(<<13519,4071,28544,45>>, -52),
    Neg(<<3061,26900,3745,175>>, -54), Neg(<<19931,8193,22639,166>>, -54),
    Neg(<<29863,14127,3550,79>>, -53), Neg(<<27363,20355,27759,74>>, -53),
    Neg(<<3623,14949,4139,141>>, -54), Neg(<<841,16787,8443,66>>, -53),
    Neg(<<14623,26057,23855,247>>, -55), Neg(<<25403,14029,5732,115>>, -54),
    Neg(<<11387,11330,14771,106>>, -54), Neg(<<25167,15084,12727,195>>, -55),
    Neg(<<28273,8066,7437,22>>, -52), Neg(<<21363,20304,6189,160>>, -55),
    Neg(<<20235,5773,8409,71>>, -54), Neg(<<25291,6302,19281,249>>, -56),
    Neg(<<11193,6972,1217,107>>, -55), Neg(<<263,29061,16218,178>>, -56),
    Neg(<<10389,28010,14110,71>>, -55), Neg(<<18703,4575,12061,214>>, -57),
    Neg(<<23589,5103,31075,142>>, -57), Neg(<<30533,5572,24331,35>>, -56),
    Pos(<<23559,26152,6296,141>>, -106), Pos(<<23863,22291,31788,142>>, -58),
    Pos(<<23607,5103,31075,142>>, -57), Pos(<<18721,4575,12061,214>>, -57),
    Pos(<<20771,23252,28221,142>>, -56), Pos(<<17025,11633,22847>>, -48),
    Pos(<<22379,13944,2434,214>>, -56), Pos(<<22709,9767,13012,62>>, -54),
    Pos(<<20237,5773,8409,71>>, -54), Pos(<<21367,20304,6189,160>>, -55),
    Pos(<<23779,16133,14874,44>>, -53), Pos(<<25171,15084,12727,195>>, -55),
    Pos(<<11389,11330,14771,106>>, -54), Pos(<<25401,14029,5732,115>>, -54),
    Pos(<<14619,26057,23855,247>>, -55), Pos(<<12393,14386,9247,8>>, -50),
    Pos(<<3625,14949,4139,141>>, -54), Pos(<<31417,29664,23323,18>>, -51),
    Pos(<<32405,26341,29115,9>>, -50), Pos(<<19933,8193,22639,166>>, -54),
    Pos(<<3063,26900,3745,175>>, -54), Pos(<<27039,8142,24320,91>>, -53),
    Pos(<<19245,14267,16332,1>>, -47), Pos(<<32725,8856,890,100>>, -53),
    Pos(<<6865,16908,8164,208>>, -54), Pos(<<6227,28271,12469,216>>, -54),
    Pos(<<1481,13692,14615,224>>, -54), Pos(<<24065,22153,14520,232>>, -54),
    Pos(<<10301,29732,6052,120>>, -53), Pos(<<20599,28143,3645,124>>, -53),
    Pos(<<1,0,0,128>>, -53), Pos(<<24339,16891,27844,131>>, -53),
    Pos(<<28309,16044,27186,67>>, -52), Pos(<<30493,12000,14011,139>>, -53),
    Pos(<<32393,1041,18897,71>>, -52), Pos(<<18809,28920,27379,146>>, -53),
    Pos(<<11567,1141,7750,75>>, -52), Pos(<<16055,10411,2118,154>>, -53),
    Pos(<<18745,25467,19966,157>>, -53), Pos(<<15711,1096,18121,80>>, -52),
    Pos(<<5661,9336,18141,164>>, -53), Pos(<<5109,16540,32367,41>>, -51),
    Pos(<<16763,9656,13506,21>>, -50), Pos(<<7211,29465,19384,174>>, -53),
    Pos(<<1841,1564,3753,11>>, -49), Pos(<<15309,19710,633,181>>, -53),
    Pos(<<19769,19786,4947,184>>, -53), Pos(<<13505,24776,20095,93>>, -52),
    Pos(<<24417,10291,4015,95>>, -52), Pos(<<7223,26946,6738,193>>, -53),
    Pos(<<20537,17822,3518,196>>, -53), Pos(<<13413,19781,28464,24>>, -50),
    Pos(<<25553,10216,23945,201>>, -53), Pos(<<7813,1873,3692,51>>, -51),
    Pos(<<32405,26341,29115,25>>, -50), Pos(<<1863,12843,23033,209>>, -53),
    Pos(<<15273,26324,1913,53>>, -51), Pos(<<3063,21591,22115,53>>, -51),
    Pos(<<10565,1435,3287,217>>, -53), Pos(<<30063,7798,23508,109>>, -52),
    Pos(<<19627,20656,23019,221>>, -53), Pos(<<7395,30675,31172,111>>, -52),
    Pos(<<9441,21467,8333,28>>, -50), Pos(<<11373,14970,3200,228>>, -53),
    Pos(<<7269,15190,1495,115>>, -52), Pos(<<22375,24667,484,232>>, -53),
    Pos(<<32661,24062,28430,233>>, -53), Pos(<<26223,12376,21274,235>>, -53),
    Pos(<<31083,24165,21950,29>>, -50), Pos(<<14341,7679,32656,238>>, -53),
    Pos(<<2887,8489,4598,60>>, -51), Pos(<<13515,22525,1728,242>>, -53),
    Pos(<<21759,9864,15416,243>>, -53), Pos(<<23327,23799,26673,244>>, -53),
    Pos(<<15607,8077,30229,1>>, -46), Pos(<<16149,3729,9077,247>>, -53),
    Pos(<<14885,16115,12966,248>>, -53), Pos(<<1807,17053,14376,249>>, -53),
    Pos(<<29697,28873,31335,1>>, -46), Pos(<<23393,26936,21242,125>>, -52),
    Pos(<<7191,6402,3630,252>>, -53), Pos(<<30999,18967,6948,63>>, -51),
    Pos(<<19005,10544,24717,126>>, -52), Pos(<<16011,19268,3008,254>>, -53),
    Pos(<<13283,5368,9791,127>>, -52), Pos(<<2769,13336,16807,127>>, -52),
    Pos(<<32763,29040,22550,127>>, -52), Pos(<<26141,23077,21271,255>>, -53),
    Pos(<<1383,29054,27657,255>>, -53), Pos(<<22469,6133,32129,127>>, -52),
    Pos(<<1>>, 0), Pos(<<22469,6133,32129,127>>, -52),
    Pos(<<1383,29054,27657,255>>, -53), Pos(<<26141,23077,21271,255>>, -53),
    Pos(<<32763,29040,22550,127>>, -52), Pos(<<2769,13336,16807,127>>, -52),
    Pos(<<13283,5368,9791,127>>, -52), Pos(<<16011,19268,3008,254>>, -53),
    Pos(<<19005,10544,24717,126>>, -52), Pos(<<30999,18967,6948,63>>, -51),
    Pos(<<7191,6402,3630,252>>, -53), Pos(<<23393,26936,21242,125>>, -52),
    Pos(<<29697,28873,31335,1>>, -46), Pos(<<1807,17053,14376,249>>, -53),
    Pos(<<14885,16115,12966,248>>, -53), Pos(<<16149,3729,9077,247>>, -53),
    Pos(<<15607,8077,30229,1>>, -46), Pos(<<23327,23799,26673,244>>, -53),
    Pos(<<21759,9864,15416,243>>, -53), Pos(<<13515,22525,1728,242>>, -53),
    Pos(<<2887,8489,4598,60>>, -51), Pos(<<14341,7679,32656,238>>, -53),
    Pos(<<31083,24165,21950,29>>, -50), Pos(<<26223,12376,21274,235>>, -53),
    Pos(<<32661,24062,28430,233>>, -53), Pos(<<22375,24667,484,232>>, -53),
    Pos(<<7269,15190,1495,115>>, -52), Pos(<<11373,14970,3200,228>>, -53),
    Pos(<<9441,21467,8333,28>>, -50), Pos(<<7395,30675,31172,111>>, -52),
    Pos(<<19627,20656,23019,221>>, -53), Pos(<<30063,7798,23508,109>>, -52),
    Pos(<<10565,1435,3287,217>>, -53), Pos(<<3063,21591,22115,53>>, -51),
    Pos(<<15273,26324,1913,53>>, -51), Pos(<<1863,12843,23033,209>>, -53),
    Pos(<<32405,26341,29115,25>>, -50), Pos(<<7813,1873,3692,51>>, -51),
    Pos(<<25553,10216,23945,201>>, -53), Pos(<<13413,19781,28464,24>>, -50),
    Pos(<<20537,17822,3518,196>>, -53), Pos(<<7223,26946,6738,193>>, -53),
    Pos(<<24417,10291,4015,95>>, -52), Pos(<<13505,24776,20095,93>>, -52),
    Pos(<<19769,19786,4947,184>>, -53), Pos(<<15309,19710,633,181>>, -53),
    Pos(<<1841,1564,3753,11>>, -49), Pos(<<7211,29465,19384,174>>, -53),
    Pos(<<16763,9656,13506,21>>, -50), Pos(<<5109,16540,32367,41>>, -51),
    Pos(<<5661,9336,18141,164>>, -53), Pos(<<15711,1096,18121,80>>, -52),
    Pos(<<18745,25467,19966,157>>, -53), Pos(<<16055,10411,2118,154>>, -53),
    Pos(<<11567,1141,7750,75>>, -52), Pos(<<18809,28920,27379,146>>, -53),
    Pos(<<32393,1041,18897,71>>, -52), Pos(<<30493,12000,14011,139>>, -53),
    Pos(<<28309,16044,27186,67>>, -52), Pos(<<24339,16891,27844,131>>, -53),
    Pos(<<1,0,0,128>>, -53), Pos(<<20599,28143,3645,124>>, -53),
    Pos(<<10301,29732,6052,120>>, -53), Pos(<<24065,22153,14520,232>>, -54),
    Pos(<<1481,13692,14615,224>>, -54), Pos(<<6227,28271,12469,216>>, -54),
    Pos(<<6865,16908,8164,208>>, -54), Pos(<<32725,8856,890,100>>, -53),
    Pos(<<19245,14267,16332,1>>, -47), Pos(<<27039,8142,24320,91>>, -53),
    Pos(<<3063,26900,3745,175>>, -54), Pos(<<19933,8193,22639,166>>, -54),
    Pos(<<32405,26341,29115,9>>, -50), Pos(<<31417,29664,23323,18>>, -51),
    Pos(<<3625,14949,4139,141>>, -54), Pos(<<12393,14386,9247,8>>, -50),
    Pos(<<14619,26057,23855,247>>, -55), Pos(<<25401,14029,5732,115>>, -54),
    Pos(<<11389,11330,14771,106>>, -54), Pos(<<25171,15084,12727,195>>, -55),
    Pos(<<23779,16133,14874,44>>, -53), Pos(<<21367,20304,6189,160>>, -55),
    Pos(<<20237,5773,8409,71>>, -54), Pos(<<22709,9767,13012,62>>, -54),
    Pos(<<22379,13944,2434,214>>, -56), Pos(<<17025,11633,22847>>, -48),
    Pos(<<20771,23252,28221,142>>, -56), Pos(<<18721,4575,12061,214>>, -57),
    Pos(<<23607,5103,31075,142>>, -57), Pos(<<23863,22291,31788,142>>, -58),
    Pos(<<23559,26152,6296,141>>, -106), Neg(<<30533,5572,24331,35>>, -56),
    Neg(<<23589,5103,31075,142>>, -57), Neg(<<18703,4575,12061,214>>, -57),
    Neg(<<10389,28010,14110,71>>, -55), Neg(<<263,29061,16218,178>>, -56),
    Neg(<<11193,6972,1217,107>>, -55), Neg(<<25291,6302,19281,249>>, -56),
    Neg(<<20235,5773,8409,71>>, -54), Neg(<<21363,20304,6189,160>>, -55),
    Neg(<<28273,8066,7437,22>>, -52), Neg(<<25167,15084,12727,195>>, -55),
    Neg(<<11387,11330,14771,106>>, -54), Neg(<<25403,14029,5732,115>>, -54),
    Neg(<<14623,26057,23855,247>>, -55), Neg(<<841,16787,8443,66>>, -53),
    Neg(<<3623,14949,4139,141>>, -54), Neg(<<27363,20355,27759,74>>, -53),
    Neg(<<29863,14127,3550,79>>, -53), Neg(<<19931,8193,22639,166>>, -54),
    Neg(<<3061,26900,3745,175>>, -54), Neg(<<13519,4071,28544,45>>, -52),
    Neg(<<19265,28389,29467,95>>, -53), Neg(<<32683,17713,1780,200>>, -54),
    Neg(<<3433,8454,4082,104>>, -53), Neg(<<6225,28271,12469,216>>, -54),
    Neg(<<741,23230,7307,112>>, -53), Neg(<<24063,22153,14520,232>>, -54),
    Neg(<<20603,26696,12105,240>>, -54), Neg(<<26683,30455,1822,62>>, -52),
    Neg(<<32767,32767,32767,63>>, -52), Neg(<<30661,4222,31537,32>>, -51),
    Neg(<<23849,32089,21604,135>>, -53), Neg(<<30493,12000,14011,139>>, -53),
    Neg(<<32017,2083,5026,143>>, -53), Neg(<<18809,28920,27379,146>>, -53),
    Neg(<<23133,2282,15500,150>>, -53), Neg(<<16055,10411,2118,154>>, -53),
    Neg(<<18745,25467,19966,157>>, -53), Neg(<<7855,16932,9060,40>>, -51),
    Neg(<<5661,9336,18141,164>>, -53), Neg(<<20435,624,31166,167>>, -53),
    Neg(<<16763,9656,13506,21>>, -50), Neg(<<19989,14732,9692,87>>, -52),
    Neg(<<29457,25024,27280,177>>, -53), Neg(<<20211,13119,8350,45>>, -51),
    Neg(<<19769,19786,4947,184>>, -53), Neg(<<13505,24776,20095,93>>, -52),
    Neg(<<20219,15681,31869,2>>, -47), Neg(<<7223,26946,6738,193>>, -53),
    Neg(<<27143,26803,16823,24>>, -50), Neg(<<13413,19781,28464,24>>, -50),
    Neg(<<25553,10216,23945,201>>, -53), Neg(<<31253,7492,14768,204>>, -53),
    Neg(<<29863,14127,3550,207>>, -53), Neg(<<12521,5701,6975,26>>, -50),
    Neg(<<15273,26324,1913,53>>, -51), Neg(<<12251,20828,22926,214>>, -53),
    Neg(<<10565,1435,3287,217>>, -53), Neg(<<27357,15597,14248,219>>, -53),
    Neg(<<19627,20656,23019,221>>, -53), Neg(<<7395,30675,31172,111>>, -52),
    Neg(<<9441,21467,8333,28>>, -50), Neg(<<19227,3742,800,57>>, -51),
    Neg(<<7269,15190,1495,115>>, -52), Neg(<<22375,24667,484,232>>, -53),
    Neg(<<24549,22399,15299,58>>, -51), Neg(<<26223,12376,21274,235>>, -53),
    Neg(<<19287,29487,11765,237>>, -53), Neg(<<14341,7679,32656,238>>, -53),
    Neg(<<11547,1188,18393,240>>, -53), Neg(<<13515,22525,1728,242>>, -53),
    Neg(<<21759,9864,15416,243>>, -53), Neg(<<24281,18151,21313,7>>, -48),
    Neg(<<15607,8077,30229,1>>, -46), Neg(<<12229,9124,26845,61>>, -51),
    Neg(<<14885,16115,12966,248>>, -53), Neg(<<17287,8526,23572,124>>, -52),
    Neg(<<29697,28873,31335,1>>, -46), Neg(<<23393,26936,21242,125>>, -52),
    Neg(<<7191,6402,3630,252>>, -53), Neg(<<25691,10335,27794,252>>, -53),
    Neg(<<19005,10544,24717,126>>, -52), Neg(<<16011,19268,3008,254>>, -53),
    Neg(<<13283,5368,9791,127>>, -52), Neg(<<2769,13336,16807,127>>, -52),
    Neg(<<32763,29040,22550,127>>, -52), Neg(<<26141,23077,21271,255>>, -53),
    Neg(<<1383,29054,27657,255>>, -53), Neg(<<22469,6133,32129,127>>, -52),
    Neg(<<1>>, 0), Neg(<<22469,6133,32129,127>>, -52),
    Neg(<<1383,29054,27657,255>>, -53), Neg(<<26141,23077,21271,255>>, -53),
    Neg(<<32763,29040,22550,127>>, -52), Neg(<<2769,13336,16807,127>>, -52),
    Neg(<<13283,5368,9791,127>>, -52), Neg(<<4003,4817,17136,63>>, -51),
    Neg(<<5241,21089,16666,253>>, -53), Neg(<<30999,18967,6948,63>>, -51),
    Neg(<<7191,6402,3630,252>>, -53), Neg(<<23393,26936,21242,125>>, -52),
    Neg(<<127,25844,13296,250>>, -53), Neg(<<1807,17053,14376,249>>, -53),
    Neg(<<14885,16115,12966,248>>, -53), Neg(<<16149,3729,9077,247>>, -53),
    Neg(<<15607,8077,30229,1>>, -46), Neg(<<23327,23799,26673,244>>, -53),
    Neg(<<17493,7206,31164>>, -45), Neg(<<23141,11262,864,121>>, -52),
    Neg(<<2887,8489,4598,60>>, -51), Neg(<<14341,7679,32656,238>>, -53),
    Neg(<<31083,24165,21950,29>>, -50), Neg(<<26223,12376,21274,235>>, -53),
    Neg(<<32661,24062,28430,233>>, -53), Neg(<<15085,19467,60,29>>, -50),
    Neg(<<14537,30380,2990,230>>, -53), Neg(<<11373,14970,3200,228>>, -53),
    Neg(<<9991,7898,1133,226>>, -53), Neg(<<14791,28582,29577,223>>, -53),
    Neg(<<9813,26712,27893,110>>, -52), Neg(<<30063,7798,23508,109>>, -52),
    Neg(<<21667,17101,18027,108>>, -52), Neg(<<3063,21591,22115,53>>, -51),
    Neg(<<30547,19880,3827,106>>, -52), Neg(<<1863,12843,23033,209>>, -53),
    Neg(<<29865,14127,3550,207>>, -53), Neg(<<7813,1873,3692,51>>, -51),
    Neg(<<12777,21492,28356,100>>, -52), Neg(<<8999,27179,31108,198>>, -53),
    Neg(<<20537,17822,3518,196>>, -53), Neg(<<9095,11560,4938,24>>, -50),
    Neg(<<24417,10291,4015,95>>, -52), Neg(<<27011,16784,7423,187>>, -53),
    Neg(<<10663,14761,618,23>>, -50), Neg(<<7655,26239,16700,90>>, -52),
    Neg(<<1841,1564,3753,11>>, -49), Neg(<<9995,7366,21230,43>>, -51),
    Neg(<<3031,11716,9746,171>>, -53), Neg(<<5109,16540,32367,41>>, -51),
    Neg(<<2831,21052,9070,82>>, -52), Neg(<<31425,2192,3474,161>>, -53),
    Neg(<<18743,25467,19966,157>>, -53), Neg(<<24411,5205,1059,77>>, -52),
    Neg(<<23135,2282,15500,150>>, -53), Neg(<<18811,28920,27379,146>>, -53),
    Neg(<<8145,4226,31034,8>>, -49), Neg(<<7623,27576,28078,34>>, -51),
    Neg(<<23851,32089,21604,135>>, -53), Neg(<<28555,8445,30306,65>>, -52),
    Neg(<<1,0,0,32>>, -51), Neg(<<8425,23519,7291,248>>, -54),
    Neg(<<2575,7433,1513,30>>, -51), Neg(<<24067,22153,14520,232>>, -54),
    Neg(<<743,23230,7307,112>>, -53), Neg(<<19495,30519,6234,108>>, -53),
    Neg(<<6863,16908,8164,208>>, -54), Neg(<<16363,4428,445,50>>, -52),
    Neg(<<19267,28389,29467,95>>, -53), Neg(<<13521,4071,28544,45>>, -52),
    Neg(<<1529,29834,18256,87>>, -53), Neg(<<19931,8193,22639,166>>, -54),
    Neg(<<29865,14127,3550,79>>, -53), Neg(<<27367,20355,27759,74>>, -53),
    Neg(<<9097,28313,9226,35>>, -52), Neg(<<839,16787,8443,66>>, -53),
    Neg(<<14623,26057,23855,247>>, -55), Neg(<<25407,14029,5732,115>>, -54),
    Neg(<<11395,11330,14771,106>>, -54), Neg(<<19529,30557,13878,24>>, -52),
    Neg(<<29577,31766,26729,177>>, -55), Neg(<<21371,20304,6189,160>>, -55),
    Neg(<<7719,11547,16818,142>>, -55), Neg(<<25277,6302,19281,249>>, -56),
    Neg(<<5593,19870,16992,53>>, -54), Neg(<<20513,11824,10219,22>>, -53),
    Neg(<<5199,14005,23439,35>>, -54), Neg(<<25769,18671,6030,107>>, -56),
    Neg(<<23561,5103,31075,142>>, -57), Neg(<<28301,11145,15894,71>>, -57),
    Neg(<<17669,19614,29298,105>>, -104), Pos(<<7627,25969,30658,8>>, -54),
    Pos(<<30485,25851,24152,35>>, -55), Pos(<<25743,18671,6030,107>>, -56),
    Pos(<<10385,28010,14110,71>>, -55), Pos(<<16503,14530,8109,89>>, -55),
    Pos(<<22345,13944,2434,214>>, -56), Pos(<<12657,19535,26024,124>>, -55),
    Pos(<<20237,5773,8409,71>>, -54), Pos(<<10679,26536,3094,80>>, -54),
    Pos(<<23775,16133,14874,44>>, -53), Pos(<<12589,23926,22747,97>>, -54),
    Pos(<<22777,22660,29542,212>>, -55), Pos(<<25401,14029,5732,115>>, -54),
    Pos(<<14611,26057,23855,247>>, -55), Pos(<<24785,28772,18494,16>>, -51),
    Pos(<<3629,14949,4139,141>>, -54), Pos(<<21959,7943,22751,149>>, -54),
    Pos(<<31315,7063,18159,39>>, -52), Pos(<<19925,8193,22639,166>>, -54),
    Pos(<<1533,29834,18256,87>>, -53), Pos(<<27039,8142,24320,91>>, -53),
    Pos(<<19245,14267,16332,1>>, -47), Pos(<<32723,8856,890,100>>, -53),
    Pos(<<6857,16908,8164,208>>, -54), Pos(<<19499,30519,6234,108>>, -53),
    Pos(<<16569,30383,1826,28>>, -51), Pos(<<28415,11076,7260,116>>, -53),
    Pos(<<10297,29732,6052,120>>, -53), Pos(<<8433,23519,7291,248>>, -54),
    Pos(<<1,0,0,128>>, -53), Pos(<<24339,16891,27844,131>>, -53),
    Pos(<<7077,20395,31372,16>>, -50), Pos(<<30489,12000,14011,139>>, -53),
    Pos(<<32581,16904,25832,35>>, -51), Pos(<<2351,15903,11614,18>>, -50),
    Pos(<<22167,570,20259,37>>, -51), Pos(<<16051,10411,2118,154>>, -53),
    Pos(<<18747,25467,19966,157>>, -53), Pos(<<15711,1096,18121,80>>, -52),
    Pos(<<1415,10526,4535,41>>, -51), Pos(<<10217,312,31967,83>>, -52),
    Pos(<<757,19313,27012,42>>, -51), Pos(<<9995,7366,21230,43>>, -51),
    Pos(<<1841,1564,3753,11>>, -49), Pos(<<15307,19710,633,181>>, -53),
    Pos(<<9883,26277,2473,92>>, -52), Pos(<<6753,28772,26431,46>>, -51),
    Pos(<<24417,10291,4015,95>>, -52), Pos(<<3611,13473,19753,96>>, -52),
    Pos(<<20535,17822,3518,196>>, -53), Pos(<<8997,27179,31108,198>>, -53),
    Pos(<<12777,21492,28356,100>>, -52), Pos(<<7813,1873,3692,51>>, -51),
    Pos(<<29863,14127,3550,207>>, -53), Pos(<<1861,12843,23033,209>>, -53),
    Pos(<<30547,19880,3827,106>>, -52), Pos(<<3063,21591,22115,53>>, -51),
    Pos(<<10565,1435,3287,217>>, -53), Pos(<<15031,3899,28138,54>>, -51),
    Pos(<<2453,14870,23357,27>>, -50), Pos(<<14791,28582,29577,223>>, -53),
    Pos(<<9991,7898,1133,226>>, -53), Pos(<<19227,3742,800,57>>, -51),
    Pos(<<18201,28373,24949,28>>, -50), Pos(<<15085,19467,60,29>>, -50),
    Pos(<<16331,12031,30599,116>>, -52), Pos(<<13111,6188,27021,117>>, -52),
    Pos(<<19287,29487,11765,237>>, -53), Pos(<<14339,7679,32656,238>>, -53),
    Pos(<<2887,8489,4598,60>>, -51), Pos(<<13515,22525,1728,242>>, -53),
    Pos(<<21759,9864,15416,243>>, -53), Pos(<<28047,28283,13336,122>>, -52),
    Pos(<<15607,8077,30229,1>>, -46), Pos(<<16149,3729,9077,247>>, -53),
    Pos(<<14885,16115,12966,248>>, -53), Pos(<<17287,8526,23572,124>>, -52),
    Pos(<<127,25844,13296,250>>, -53), Pos(<<23393,26936,21242,125>>, -52),
    Pos(<<7191,6402,3630,252>>, -53), Pos(<<25691,10335,27794,252>>, -53),
    Pos(<<5241,21089,16666,253>>, -53), Pos(<<4003,4817,17136,63>>, -51),
    Pos(<<13283,5368,9791,127>>, -52), Pos(<<2769,13336,16807,127>>, -52),
    Pos(<<32763,29040,22550,127>>, -52), Pos(<<26141,23077,21271,255>>, -53),
    Pos(<<1383,29054,27657,255>>, -53), Pos(<<22469,6133,32129,127>>, -52),
    Pos(<<1>>, 0)
>>
SinTable == <<
    Pos(<<23559,26152,6296,141>>, -104), Pos(<<30539,5572,24331,35>>, -56),
    Pos(<<28169,18935,15537,71>>, -56), Pos(<<18779,4575,12061,214>>, -57),
    Pos(<<10565,31595,7608,2>>, -50), Pos(<<269,29061,16218,178>>, -56),
    Pos(<<2797,9935,24880,26>>, -53), Pos(<<25281,6302,19281,249>>, -56),
    Pos(<<7721,11547,16818,142>>, -55), Pos(<<10687,26536,3094,80>>, -54),
    Pos(<<29579,31766,26729,177>>, -55), Pos(<<12581,23926,22747,97>>, -54),
    Pos(<<22793,22660,29542,212>>, -55), Pos(<<18049,28059,11464,230>>, -55),
    Pos(<<23697,29412,28311,123>>, -54), Pos(<<1679,806,16887,132>>, -54),
    Pos(<<3621,14949,4139,141>>, -54), Pos(<<21967,7943,22751,149>>, -54),
    Pos(<<26963,28255,7100,158>>, -54), Pos(<<13175,26624,22043,41>>, -52),
    Pos(<<3059,26900,3745,175>>, -54), Pos(<<21317,16285,15872,183>>, -54),
    Pos(<<5767,24011,26167,191>>, -54), Pos(<<32685,17713,1780,200>>, -54),
    Pos(<<25005,9248,510,13>>, -50), Pos(<<6223,28271,12469,216>>, -54),
    Pos(<<1487,13692,14615,224>>, -54), Pos(<<14209,5538,3630,58>>, -52),
    Pos(<<20601,26696,12105,240>>, -54), Pos(<<20597,28143,3645,124>>, -53),
    Pos(<<1,0,0,32>>, -51), Pos(<<28555,8445,30306,65>>, -52),
    Pos(<<23851,32089,21604,135>>, -53), Pos(<<7623,27576,28078,34>>, -51),
    Pos(<<8145,4226,31034,8>>, -49), Pos(<<4703,31806,23228,36>>, -51),
    Pos(<<10963,12359,23012,4>>, -48), Pos(<<24411,5205,1059,77>>, -52),
    Pos(<<14631,27759,22975,19>>, -50), Pos(<<31425,2192,3474,161>>, -53),
    Pos(<<5663,9336,18141,164>>, -53), Pos(<<20437,624,31166,167>>, -53),
    Pos(<<3031,11716,9746,171>>, -53), Pos(<<7209,29465,19384,174>>, -53),
    Pos(<<29459,25024,27280,177>>, -53), Pos(<<7655,26239,16700,90>>, -52),
    Pos(<<19769,19786,4947,184>>, -53), Pos(<<27009,16784,7423,187>>, -53),
    Pos(<<16069,20583,8030,190>>, -53), Pos(<<7225,26946,6738,193>>, -53),
    Pos(<<10269,8911,1759,98>>, -52), Pos(<<8999,27179,31108,198>>, -53),
    Pos(<<17981,19070,19928,12>>, -49), Pos(<<15627,3746,7384,102>>, -52),
    Pos(<<29865,14127,3550,207>>, -53), Pos(<<1863,12843,23033,209>>, -53),
    Pos(<<15273,26324,1913,53>>, -51), Pos(<<6127,10414,11463,107>>, -52),
    Pos(<<10567,1435,3287,217>>, -53), Pos(<<30063,7798,23508,109>>, -52),
    Pos(<<9813,26712,27893,110>>, -52), Pos(<<14789,28582,29577,223>>, -53),
    Pos(<<9993,7898,1133,226>>, -53), Pos(<<5687,7485,1600,114>>, -52),
    Pos(<<7269,15190,1495,115>>, -52), Pos(<<22375,24667,484,232>>, -53),
    Pos(<<32663,24062,28430,233>>, -53), Pos(<<18023,21253,23857,14>>, -49),
    Pos(<<31083,24165,21950,29>>, -50), Pos(<<14341,7679,32656,238>>, -53),
    Pos(<<11547,1188,18393,240>>, -53), Pos(<<11571,5631,16816,60>>, -51),
    Pos(<<17493,7206,31164>>, -45), Pos(<<23327,23799,26673,244>>, -53),
    Pos(<<31615,18108,2719,246>>, -53), Pos(<<24459,18248,20922,123>>, -52),
    Pos(<<23827,8057,6483,124>>, -52), Pos(<<1807,17053,14376,249>>, -53),
    Pos(<<127,25844,13296,250>>, -53), Pos(<<14017,21105,9717,251>>, -53),
    Pos(<<9091,25376,16837,31>>, -50), Pos(<<30999,18967,6948,63>>, -51),
    Pos(<<19005,10544,24717,126>>, -52), Pos(<<16011,19268,3008,254>>, -53),
    Pos(<<26567,10736,19582,254>>, -53), Pos(<<2769,13336,16807,127>>, -52),
    Pos(<<32759,25313,12333,255>>, -53), Pos(<<26141,23077,21271,255>>, -53),
    Pos(<<1383,29054,27657,255>>, -53), Pos(<<22469,6133,32129,127>>, -52),
    Pos(<<1>>, 0), Pos(<<22469,6133,32129,127>>, -52),
    Pos(<<1383,29054,27657,255>>, -53), Pos(<<26141,23077,21271,255>>, -53),
    Pos(<<32763,29040,22550,127>>, -52), Pos(<<2769,13336,16807,127>>, -52),
    Pos(<<26567,10736,19582,254>>, -53), Pos(<<4003,4817,17136,63>>, -51),
    Pos(<<5241,21089,16666,253>>, -53), Pos(<<25691,10335,27794,252>>, -53),
    Pos(<<7191,6402,3630,252>>, -53), Pos(<<23393,26936,21242,125>>, -52),
    Pos(<<127,25844,13296,250>>, -53), Pos(<<17287,8526,23572,124>>, -52),
    Pos(<<14885,16115,12966,248>>, -53), Pos(<<16149,3729,9077,247>>, -53),
    Pos(<<31617,18108,2719,246>>, -53), Pos(<<28047,28283,13336,122>>, -52),
    Pos(<<21759,9864,15416,243>>, -53), Pos(<<13515,22525,1728,242>>, -53),
    Pos(<<2887,8489,4598,60>>, -51), Pos(<<28161,1919,24548,59>>, -51),
    Pos(<<19287,29487,11765,237>>, -53), Pos(<<13111,6188,27021,117>>, -52),
    Pos(<<16331,12031,30599,116>>, -52), Pos(<<15085,19467,60,29>>, -50),
    Pos(<<18201,28373,24949,28>>, -50), Pos(<<19227,3742,800,57>>, -51),
    Pos(<<9441,21467,8333,28>>, -50), Pos(<<26425,7668,32369,27>>, -50),
    Pos(<<2453,14870,23357,27>>, -50), Pos(<<15031,3899,28138,54>>, -51),
    Pos(<<10565,1435,3287,217>>, -53), Pos(<<3063,21591,22115,53>>, -51),
    Pos(<<30547,19880,3827,106>>, -52), Pos(<<1861,12843,23033,209>>, -53),
    Pos(<<29863,14127,3550,207>>, -53), Pos(<<7813,1873,3692,51>>, -51),
    Pos(<<25555,10216,23945,201>>, -53), Pos(<<8997,27179,31108,198>>, -53),
    Pos(<<27143,26803,16823,24>>, -50), Pos(<<7223,26946,6738,193>>, -53),
    Pos(<<16067,20583,8030,190>>, -53), Pos(<<13505,24776,20095,93>>, -52),
    Pos(<<19769,19786,4947,184>>, -53), Pos(<<20211,13119,8350,45>>, -51),
    Pos(<<29457,25024,27280,177>>, -53), Pos(<<19989,14732,9692,87>>, -52),
    Pos(<<16763,9656,13506,21>>, -50), Pos(<<10217,312,31967,83>>, -52),
    Pos(<<1415,10526,4535,41>>, -51), Pos(<<31423,2192,3474,161>>, -53),
    Pos(<<14631,27759,22975,19>>, -50), Pos(<<16055,10411,2118,154>>, -53),
    Pos(<<23133,2282,15500,150>>, -53), Pos(<<18809,28920,27379,146>>, -53),
    Pos(<<32017,2083,5026,143>>, -53), Pos(<<30493,12000,14011,139>>, -53),
    Pos(<<23849,32089,21604,135>>, -53), Pos(<<24339,16891,27844,131>>, -53),
    Pos(<<1,0,0,128>>, -53), Pos(<<8427,23519,7291,248>>, -54),
    Pos(<<10301,29732,6052,120>>, -53), Pos(<<24063,22153,14520,232>>, -54),
    Pos(<<1481,13692,14615,224>>, -54), Pos(<<31109,12006,17163,13>>, -50),
    Pos(<<6865,16908,8164,208>>, -54), Pos(<<32679,17713,1780,200>>, -54),
    Pos(<<5761,24011,26167,191>>, -54), Pos(<<21311,16285,15872,183>>, -54),
    Pos(<<765,14917,25512,43>>, -52), Pos(<<19933,8193,22639,166>>, -54),
    Pos(<<26957,28255,7100,158>>, -54), Pos(<<31417,29664,23323,18>>, -51),
    Pos(<<18195,23858,18453,70>>, -53), Pos(<<1681,806,16887,132>>, -54),
    Pos(<<14613,26057,23855,247>>, -55), Pos(<<29085,7014,19250,57>>, -53),
    Pos(<<5695,22049,7385,53>>, -53), Pos(<<6291,28347,27757,48>>, -53),
    Pos(<<14791,32267,29748,88>>, -54), Pos(<<1335,27893,386,10>>, -51),
    Pos(<<26503,19270,20588,35>>, -53), Pos(<<25287,6302,19281,249>>, -56),
    Pos(<<11191,6972,1217,107>>, -55), Pos(<<16505,14530,8109,89>>, -55),
    Pos(<<10387,28010,14110,71>>, -55), Pos(<<18663,4575,12061,214>>, -57),
    Pos(<<23581,5103,31075,142>>, -57), Pos(<<28321,11145,15894,71>>, -57),
    Neg(<<23559,26152,6296,141>>, -105), Neg(<<23817,22291,31788,142>>, -58),
    Neg(<<24433,17999,7653,2>>, -51), Neg(<<25733,18671,6030,107>>, -56),
    Neg(<<18983,23386,28103,17>>, -53), Neg(<<8257,23649,20438,44>>, -54),
    Neg(<<22399,13944,2434,214>>, -56), Neg(<<27739,4883,6506,31>>, -53),
    Neg(<<7701,11547,16818,142>>, -55), Neg(<<21369,20304,6189,160>>, -55),
    Neg(<<29575,31766,26729,177>>, -55), Neg(<<25173,15084,12727,195>>, -55),
    Neg(<<22773,22660,29542,212>>, -55), Neg(<<29087,7014,19250,57>>, -53),
    Neg(<<14621,26057,23855,247>>, -55), Neg(<<1685,806,16887,132>>, -54),
    Neg(<<18197,23858,18453,70>>, -53), Neg(<<21957,7943,22751,149>>, -54),
    Neg(<<26961,28255,7100,158>>, -54), Neg(<<26349,20480,11319,83>>, -53),
    Neg(<<16767,7458,29140,21>>, -51), Neg(<<21307,16285,15872,183>>, -54),
    Neg(<<5765,24011,26167,191>>, -54), Neg(<<32683,17713,1780,200>>, -54),
    Neg(<<6869,16908,8164,208>>, -54), Neg(<<26133,15259,3117,54>>, -52),
    Neg(<<739,23230,7307,112>>, -53), Neg(<<28417,11076,7260,116>>, -53),
    Neg(<<20599,26696,12105,240>>, -54), Neg(<<8431,23519,7291,248>>, -54),
    Neg(<<32767,32767,32767,255>>, -54), Neg(<<24341,16891,27844,131>>, -53),
    Neg(<<28309,16044,27186,67>>, -52), Neg(<<30495,12000,14011,139>>, -53),
    Neg(<<32019,2083,5026,143>>, -53), Neg(<<18807,28920,27379,146>>, -53),
    Neg(<<23135,2282,15500,150>>, -53), Neg(<<16053,10411,2118,154>>, -53),
    Neg(<<25757,12733,26367,78>>, -52), Neg(<<31421,2192,3474,161>>, -53),
    Neg(<<2831,21052,9070,82>>, -52), Neg(<<5109,16540,32367,41>>, -51),
    Neg(<<3033,11716,9746,171>>, -53), Neg(<<9995,7366,21230,43>>, -51),
    Neg(<<29455,25024,27280,177>>, -53), Neg(<<15309,19710,633,181>>, -53),
    Neg(<<10663,14761,618,23>>, -50), Neg(<<27011,16784,7423,187>>, -53),
    Neg(<<24417,10291,4015,95>>, -52), Neg(<<9095,11560,4938,24>>, -50),
    Neg(<<20537,17822,3518,196>>, -53), Neg(<<9001,27179,31108,198>>, -53),
    Neg(<<12777,21492,28356,100>>, -52), Neg(<<31251,7492,14768,204>>, -53),
    Neg(<<32405,26341,29115,25>>, -50), Neg(<<17315,22805,27900,104>>, -52),
    Neg(<<28325,6993,7655,212>>, -53), Neg(<<12251,20828,22926,214>>, -53),
    Neg(<<21667,17101,18027,108>>, -52), Neg(<<30063,7798,23508,109>>, -52),
    Neg(<<19627,20656,23019,221>>, -53), Neg(<<14791,28582,29577,223>>, -53),
    Neg(<<9991,7898,1133,226>>, -53), Neg(<<11373,14970,3200,228>>, -53),
    Neg(<<14537,30380,2990,230>>, -53), Neg(<<15085,19467,60,29>>, -50),
    Neg(<<32661,24062,28430,233>>, -53), Neg(<<13111,6188,27021,117>>, -52),
    Neg(<<31083,24165,21950,29>>, -50), Neg(<<14341,7679,32656,238>>, -53),
    Neg(<<2887,8489,4598,60>>, -51), Neg(<<13515,22525,1728,242>>, -53),
    Neg(<<17493,7206,31164>>, -45), Neg(<<24281,18151,21313,7>>, -48),
    Neg(<<15607,8077,30229,1>>, -46), Neg(<<16149,3729,9077,247>>, -53),
    Neg(<<14885,16115,12966,248>>, -53), Neg(<<1807,17053,14376,249>>, -53),
    Neg(<<29697,28873,31335,1>>, -46), Neg(<<23393,26936,21242,125>>, -52),
    Neg(<<7191,6402,3630,252>>, -53), Neg(<<30999,18967,6948,63>>, -51),
    Neg(<<19005,10544,24717,126>>, -52), Neg(<<4003,4817,17136,63>>, -51),
    Neg(<<13283,5368,9791,127>>, -52), Neg(<<2769,13336,16807,127>>, -52),
    Neg(<<32763,29040,22550,127>>, -52), Neg(<<26141,23077,21271,255>>, -53),
    Neg(<<1383,29054,27657,255>>, -53), Neg(<<22469,6133,32129,127>>, -52),
    Neg(<<1>>, 0), Neg(<<22469,6133,32129,127>>, -52),
    Neg(<<1383,29054,27657,255>>, -53), Neg(<<26141,23077,21271,255>>, -53),
    Neg(<<32763,29040,22550,127>>, -52), Neg(<<2769,13336,16807,127>>, -52),
    Neg(<<13283,5368,9791,127>>, -52), Neg(<<16011,19268,3008,254>>, -53),
    Neg(<<19005,10544,24717,126>>, -52), Neg(<<30999,18967,6948,63>>, -51),
    Neg(<<7191,6402,3630,252>>, -53), Neg(<<23393,26936,21242,125>>, -52),
    Neg(<<127,25844,13296,250>>, -53), Neg(<<1807,17053,14376,249>>, -53),
    Neg(<<14885,16115,12966,248>>, -53), Neg(<<16149,3729,9077,247>>, -53),
    Neg(<<15607,8077,30229,1>>, -46), Neg(<<23327,23799,26673,244>>, -53),
    Neg(<<21759,9864,15416,243>>, -53), Neg(<<23141,11262,864,121>>, -52),
    Neg(<<11547,1188,18393,240>>, -53), Neg(<<14341,7679,32656,238>>, -53),
    Neg(<<31083,24165,21950,29>>, -50), Neg(<<26223,12376,21274,235>>, -53),
    Neg(<<32661,24062,28430,233>>, -53), Neg(<<22375,24667,484,232>>, -53),
    Neg(<<7269,15190,1495,115>>, -52), Neg(<<19227,3742,800,57>>, -51),
    Neg(<<9991,7898,1133,226>>, -53), Neg(<<7395,30675,31172,111>>, -52),
    Neg(<<9813,26712,27893,110>>, -52), Neg(<<30063,7798,23508,109>>, -52),
    Neg(<<10565,1435,3287,217>>, -53), Neg(<<3063,21591,22115,53>>, -51),
    Neg(<<28325,6993,7655,212>>, -53), Neg(<<1863,12843,23033,209>>, -53),
    Neg(<<32405,26341,29115,25>>, -50), Neg(<<7813,1873,3692,51>>, -51),
    Neg(<<12777,21492,28356,100>>, -52), Neg(<<13413,19781,28464,24>>, -50),
    Neg(<<20537,17822,3518,196>>, -53), Neg(<<7223,26946,6738,193>>, -53),
    Neg(<<24417,10291,4015,95>>, -52), Neg(<<13505,24776,20095,93>>, -52),
    Neg(<<10663,14761,618,23>>, -50), Neg(<<20211,13119,8350,45>>, -51),
    Neg(<<1841,1564,3753,11>>, -49), Neg(<<7211,29465,19384,174>>, -53),
    Neg(<<16763,9656,13506,21>>, -50), Neg(<<5109,16540,32367,41>>, -51),
    Neg(<<1415,10526,4535,41>>, -51), Neg(<<31421,2192,3474,161>>, -53),
    Neg(<<18745,25467,19966,157>>, -53), Neg(<<24411,5205,1059,77>>, -52),
    Neg(<<11567,1141,7750,75>>, -52), Neg(<<2351,15903,11614,18>>, -50),
    Neg(<<32019,2083,5026,143>>, -53), Neg(<<30493,12000,14011,139>>, -53),
    Neg(<<28309,16044,27186,67>>, -52), Neg(<<24339,16891,27844,131>>, -53),
    Neg(<<32767,32767,32767,255>>, -54), Neg(<<8429,23519,7291,248>>, -54),
    Neg(<<20601,26696,12105,240>>, -54), Neg(<<8815,11819,14876>>, -45),
    Neg(<<16569,30383,1826,28>>, -51), Neg(<<6227,28271,12469,216>>, -54),
    Neg(<<6865,16908,8164,208>>, -54), Neg(<<32683,17713,1780,200>>, -54),
    Neg(<<5761,24011,26167,191>>, -54), Neg(<<13519,4071,28544,45>>, -52),
    Neg(<<3061,26900,3745,175>>, -54), Neg(<<13175,26624,22043,41>>, -52),
    Neg(<<26959,28255,7100,158>>, -54), Neg(<<31417,29664,23323,18>>, -51),
    Neg(<<3625,14949,4139,141>>, -54), Neg(<<12393,14386,9247,8>>, -50),
    Neg(<<14621,26057,23855,247>>, -55), Neg(<<18037,28059,11464,230>>, -55),
    Neg(<<11387,11330,14771,106>>, -54), Neg(<<25167,15084,12727,195>>, -55),
    Neg(<<29577,31766,26729,177>>, -55), Neg(<<21365,20304,6189,160>>, -55),
    Neg(<<7705,11547,16818,142>>, -55), Neg(<<25299,6302,19281,249>>, -56),
    Neg(<<5595,19870,16992,53>>, -54), Neg(<<16513,14530,8109,89>>, -55),
    Neg(<<18981,23386,28103,17>>, -53), Neg(<<25735,18671,6030,107>>, -56),
    Neg(<<23591,5103,31075,142>>, -57), Neg(<<28303,11145,15894,71>>, -57),
    Zero, Pos(<<28303,11145,15894,71>>, -57),
    Pos(<<23591,5103,31075,142>>, -57), Pos(<<25735,18671,6030,107>>, -56),
    Pos(<<18981,23386,28103,17>>, -53), Pos(<<16513,14530,8109,89>>, -55),
    Pos(<<5595,19870,16992,53>>, -54), Pos(<<25299,6302,19281,249>>, -56),
    Pos(<<7705,11547,16818,142>>, -55), Pos(<<21365,20304,6189,160>>, -55),
    Pos(<<29577,31766,26729,177>>, -55), Pos(<<25167,15084,12727,195>>, -55),
    Pos(<<11387,11330,14771,106>>, -54), Pos(<<18037,28059,11464,230>>, -55),
    Pos(<<14621,26057,23855,247>>, -55), Pos(<<12393,14386,9247,8>>, -50),
    Pos(<<3625,14949,4139,141>>, -54), Pos(<<31417,29664,23323,18>>, -51),
    Pos(<<26959,28255,7100,158>>, -54), Pos(<<13175,26624,22043,41>>, -52),
    Pos(<<3061,26900,3745,175>>, -54), Pos(<<13519,4071,28544,45>>, -52),
    Pos(<<5761,24011,26167,191>>, -54), Pos(<<32683,17713,1780,200>>, -54),
    Pos(<<6865,16908,8164,208>>, -54), Pos(<<6227,28271,12469,216>>, -54),
    Pos(<<16569,30383,1826,28>>, -51), Pos(<<8815,11819,14876>>, -45),
    Pos(<<20601,26696,12105,240>>, -54), Pos(<<8429,23519,7291,248>>, -54),
    Pos(<<32767,32767,32767,255>>, -54), Pos(<<24339,16891,27844,131>>, -53),
    Pos(<<28309,16044,27186,67>>, -52), Pos(<<30493,12000,14011,139>>, -53),
    Pos(<<32019,2083,5026,143>>, -53), Pos(<<2351,15903,11614,18>>, -50),
    Pos(<<11567,1141,7750,75>>, -52), Pos(<<24411,5205,1059,77>>, -52),
    Pos(<<18745,25467,19966,157>>, -53), Pos(<<31421,2192,3474,161>>, -53),
    Pos(<<1415,10526,4535,41>>, -51), Pos(<<5109,16540,32367,41>>, -51),
    Pos(<<16763,9656,13506,21>>, -50), Pos(<<7211,29465,19384,174>>, -53),
    Pos(<<1841,1564,3753,11>>, -49), Pos(<<20211,13119,8350,45>>, -51),
    Pos(<<10663,14761,618,23>>, -50), Pos(<<13505,24776,20095,93>>, -52),
    Pos(<<24417,10291,4015,95>>, -52), Pos(<<7223,26946,6738,193>>, -53),
    Pos(<<20537,17822,3518,196>>, -53), Pos(<<13413,19781,28464,24>>, -50),
    Pos(<<12777,21492,28356,100>>, -52), Pos(<<7813,1873,3692,51>>, -51),
    Pos(<<32405,26341,29115,25>>, -50), Pos(<<1863,12843,23033,209>>, -53),
    Pos(<<28325,6993,7655,212>>, -53), Pos(<<3063,21591,22115,53>>, -51),
    Pos(<<10565,1435,3287,217>>, -53), Pos(<<30063,7798,23508,109>>, -52),
    Pos(<<9813,26712,27893,110>>, -52), Pos(<<7395,30675,31172,111>>, -52),
    Pos(<<9991,7898,1133,226>>, -53), Pos(<<19227,3742,800,57>>, -51),
    Pos(<<7269,15190,1495,115>>, -52), Pos(<<22375,24667,484,232>>, -53),
    Pos(<<32661,24062,28430,233>>, -53), Pos(<<26223,12376,21274,235>>, -53),
    Pos(<<31083,24165,21950,29>>, -50), Pos(<<14341,7679,32656,238>>, -53),
    Pos(<<11547,1188,18393,240>>, -53), Pos(<<23141,11262,864,121>>, -52),
    Pos(<<21759,9864,15416,243>>, -53), Pos(<<23327,23799,26673,244>>, -53),
    Pos(<<15607,8077,30229,1>>, -46), Pos(<<16149,3729,9077,247>>, -53),
    Pos(<<14885,16115,12966,248>>, -53), Pos(<<1807,17053,14376,249>>, -53),
    Pos(<<127,25844,13296,250>>, -53), Pos(<<23393,26936,21242,125>>, -52),
    Pos(<<7191,6402,3630,252>>, -53), Pos(<<30999,18967,6948,63>>, -51),
    Pos(<<19005,10544,24717,126>>, -52), Pos(<<16011,19268,3008,254>>, -53),
    Pos(<<13283,5368,9791,127>>, -52), Pos(<<2769,13336,16807,127>>, -52),
    Pos(<<32763,29040,22550,127>>, -52), Pos(<<26141,23077,21271,255>>, -53),
    Pos(<<1383,29054,27657,255>>, -53), Pos(<<22469,6133,32129,127>>, -52),
    Pos(<<1>>, 0), Pos(<<22469,6133,32129,127>>, -52),
    Pos(<<1383,29054,27657,255>>, -53), Pos(<<26141,23077,21271,255>>, -53),
    Pos(<<32763,29040,22550,127>>, -52), Pos(<<2769,13336,16807,127>>, -52),
    Pos(<<13283,5368,9791,127>>, -52), Pos(<<4003,4817,17136,63>>, -51),
    Pos(<<19005,10544,24717,126>>, -52), Pos(<<30999,18967,6948,63>>, -51),
    Pos(<<7191,6402,3630,252>>, -53), Pos(<<23393,26936,21242,125>>, -52),
    Pos(<<29697,28873,31335,1>>, -46), Pos(<<1807,17053,14376,249>>, -53),
    Pos(<<14885,16115,12966,248>>, -53), Pos(<<16149,3729,9077,247>>, -53),
    Pos(<<15607,8077,30229,1>>, -46), Pos(<<24281,18151,21313,7>>, -48),
    Pos(<<17493,7206,31164>>, -45), Pos(<<13515,22525,1728,242>>, -53),
    Pos(<<2887,8489,4598,60>>, -51), Pos(<<14341,7679,32656,238>>, -53),
    Pos(<<31083,24165,21950,29>>, -50), Pos(<<13111,6188,27021,117>>, -52),
    Pos(<<32661,24062,28430,233>>, -53), Pos(<<15085,19467,60,29>>, -50),
    Pos(<<14537,30380,2990,230>>, -53), Pos(<<11373,14970,3200,228>>, -53),
    Pos(<<9991,7898,1133,226>>, -53), Pos(<<14791,28582,29577,223>>, -53),
    Pos(<<19627,20656,23019,221>>, -53), Pos(<<30063,7798,23508,109>>, -52),
    Pos(<<21667,17101,18027,108>>, -52), Pos(<<12251,20828,22926,214>>, -53),
    Pos(<<28325,6993,7655,212>>, -53), Pos(<<17315,22805,27900,104>>, -52),
    Pos(<<32405,26341,29115,25>>, -50), Pos(<<31251,7492,14768,204>>, -53),
    Pos(<<12777,21492,28356,100>>, -52), Pos(<<9001,27179,31108,198>>, -53),
    Pos(<<20537,17822,3518,196>>, -53), Pos(<<9095,11560,4938,24>>, -50),
    Pos(<<24417,10291,4015,95>>, -52), Pos(<<27011,16784,7423,187>>, -53),
    Pos(<<10663,14761,618,23>>, -50), Pos(<<15309,19710,633,181>>, -53),
    Pos(<<29455,25024,27280,177>>, -53), Pos(<<9995,7366,21230,43>>, -51),
    Pos(<<3033,11716,9746,171>>, -53), Pos(<<5109,16540,32367,41>>, -51),
    Pos(<<2831,21052,9070,82>>, -52), Pos(<<31421,2192,3474,161>>, -53),
    Pos(<<25757,12733,26367,78>>, -52), Pos(<<16053,10411,2118,154>>, -53),
    Pos(<<23135,2282,15500,150>>, -53), Pos(<<18807,28920,27379,146>>, -53),
    Pos(<<32019,2083,5026,143>>, -53), Pos(<<30495,12000,14011,139>>, -53),
    Pos(<<28309,16044,27186,67>>, -52), Pos(<<24341,16891,27844,131>>, -53),
    Pos(<<32767,32767,32767,255>>, -54), Pos(<<8431,23519,7291,248>>, -54),
    Pos(<<20599,26696,12105,240>>, -54), Pos(<<28417,11076,7260,116>>, -53),
    Pos(<<739,23230,7307,112>>, -53), Pos(<<26133,15259,3117,54>>, -52),
    Pos(<<6869,16908,8164,208>>, -54), Pos(<<32683,17713,1780,200>>, -54),
    Pos(<<5765,24011,26167,191>>, -54), Pos(<<21307,16285,15872,183>>, -54),
    Pos(<<16767,7458,29140,21>>, -51), Pos(<<26349,20480,11319,83>>, -53),
    Pos(<<26961,28255,7100,158>>, -54), Pos(<<21957,7943,22751,149>>, -54),
    Pos(<<18197,23858,18453,70>>, -53), Pos(<<1685,806,16887,132>>, -54),
    Pos(<<14621,26057,23855,247>>, -55), Pos(<<29087,7014,19250,57>>, -53),
    Pos(<<22773,22660,29542,212>>, -55), Pos(<<25173,15084,12727,195>>, -55),
    Pos(<<29575,31766,26729,177>>, -55), Pos(<<21369,20304,6189,160>>, -55),
    Pos(<<7701,11547,16818,142>>, -55), Pos(<<27739,4883,6506,31>>, -53),
    Pos(<<22399,13944,2434,214>>, -56), Pos(<<8257,23649,20438,44>>, -54),
    Pos(<<18983,23386,28103,17>>, -53), Pos(<<25733,18671,6030,107>>, -56),
    Pos(<<24433,17999,7653,2>>, -51), Pos(<<23817,22291,31788,142>>, -58),
    Pos(<<23559,26152,6296,141>>, -105), Neg(<<28321,11145,15894,71>>, -57),
    Neg(<<23581,5103,31075,142>>, -57), Neg(<<18663,4575,12061,214>>, -57),
    Neg(<<10387,28010,14110,71>>, -55), Neg(<<16505,14530,8109,89>>, -55),
    Neg(<<11191,6972,1217,107>>, -55), Neg(<<25287,6302,19281,249>>, -56),
    Neg(<<26503,19270,20588,35>>, -53), Neg(<<1335,27893,386,10>>, -51),
    Neg(<<14791,32267,29748,88>>, -54), Neg(<<6291,28347,27757,48>>, -53),
    Neg(<<5695,22049,7385,53>>, -53), Neg(<<29085,7014,19250,57>>, -53),
    Neg(<<14613,26057,23855,247>>, -55), Neg(<<1681,806,16887,132>>, -54),
    Neg(<<18195,23858,18453,70>>, -53), Neg(<<31417,29664,23323,18>>, -51),
    Neg(<<26957,28255,7100,158>>, -54), Neg(<<19933,8193,22639,166>>, -54),
    Neg(<<765,14917,25512,43>>, -52), Neg(<<21311,16285,15872,183>>, -54),
    Neg(<<5761,24011,26167,191>>, -54), Neg(<<32679,17713,1780,200>>, -54),
    Neg(<<6865,16908,8164,208>>, -54), Neg(<<31109,12006,17163,13>>, -50),
    Neg(<<1481,13692,14615,224>>, -54), Neg(<<24063,22153,14520,232>>, -54),
    Neg(<<10301,29732,6052,120>>, -53), Neg(<<8427,23519,7291,248>>, -54),
    Neg(<<1,0,0,128>>, -53), Neg(<<24339,16891,27844,131>>, -53),
    Neg(<<23849,32089,21604,135>>, -53), Neg(<<30493,12000,14011,139>>, -53),
    Neg(<<32017,2083,5026,143>>, -53), Neg(<<18809,28920,27379,146>>, -53),
    Neg(<<23133,2282,15500,150>>, -53), Neg(<<16055,10411,2118,154>>, -53),
    Neg(<<14631,27759,22975,19>>, -50), Neg(<<31423,2192,3474,161>>, -53),
    Neg(<<1415,10526,4535,41>>, -51), Neg(<<10217,312,31967,83>>, -52),
    Neg(<<16763,9656,13506,21>>, -50), Neg(<<19989,14732,9692,87>>, -52),
    Neg(<<29457,25024,27280,177>>, -53), Neg(<<20211,13119,8350,45>>, -51),
    Neg(<<19769,19786,4947,184>>, -53), Neg(<<13505,24776,20095,93>>, -52),
    Neg(<<16067,20583,8030,190>>, -53), Neg(<<7223,26946,6738,193>>, -53),
    Neg(<<27143,26803,16823,24>>, -50), Neg(<<8997,27179,31108,198>>, -53),
    Neg(<<25555,10216,23945,201>>, -53), Neg(<<7813,1873,3692,51>>, -51),
    Neg(<<29863,14127,3550,207>>, -53), Neg(<<1861,12843,23033,209>>, -53),
    Neg(<<30547,19880,3827,106>>, -52), Neg(<<3063,21591,22115,53>>, -51),
    Neg(<<10565,1435,3287,217>>, -53), Neg(<<15031,3899,28138,54>>, -51),
    Neg(<<2453,14870,23357,27>>, -50), Neg(<<26425,7668,32369,27>>, -50),
    Neg(<<9441,21467,8333,28>>, -50), Neg(<<19227,3742,800,57>>, -51),
    Neg(<<18201,28373,24949,28>>, -50), Neg(<<15085,19467,60,29>>, -50),
    Neg(<<16331,12031,30599,116>>, -52), Neg(<<13111,6188,27021,117>>, -52),
    Neg(<<19287,29487,11765,237>>, -53), Neg(<<28161,1919,24548,59>>, -51),
    Neg(<<2887,8489,4598,60>>, -51), Neg(<<13515,22525,1728,242>>, -53),
    Neg(<<21759,9864,15416,243>>, -53), Neg(<<28047,28283,13336,122>>, -52),
    Neg(<<31617,18108,2719,246>>, -53), Neg(<<16149,3729,9077,247>>, -53),
    Neg(<<14885,16115,12966,248>>, -53), Neg(<<17287,8526,23572,124>>, -52),
    Neg(<<127,25844,13296,250>>, -53), Neg(<<23393,26936,21242,125>>, -52),
    Neg(<<7191,6402,3630,252>>, -53), Neg(<<25691,10335,27794,252>>, -53),
    Neg(<<5241,21089,16666,253>>, -53), Neg(<<4003,4817,17136,63>>, -51),
    Neg(<<26567,10736,19582,254>>, -53), Neg(<<2769,13336,16807,127>>, -52),
    Neg(<<32763,29040,22550,127>>, -52), Neg(<<26141,23077,21271,255>>, -53),
    Neg(<<1383,29054,27657,255>>, -53), Neg(<<22469,6133,32129,127>>, -52),
    Neg(<<1>>, 0), Neg(<<22469,6133,32129,127>>, -52),
    Neg(<<1383,29054,27657,255>>, -53), Neg(<<26141,23077,21271,255>>, -53),
    Neg(<<32759,25313,12333,255>>, -53), Neg(<<2769,13336,16807,127>>, -52),
    Neg(<<26567,10736,19582,254>>, -53), Neg(<<16011,19268,3008,254>>, -53),
    Neg(<<19005,10544,24717,126>>, -52), Neg(<<30999,18967,6948,63>>, -51),
    Neg(<<9091,25376,16837,31>>, -50), Neg(<<14017,21105,9717,251>>, -53),
    Neg(<<127,25844,13296,250>>, -53), Neg(<<1807,17053,14376,249>>, -53),
    Neg(<<23827,8057,6483,124>>, -52), Neg(<<24459,18248,20922,123>>, -52),
    Neg(<<31615,18108,2719,246>>, -53), Neg(<<23327,23799,26673,244>>, -53),
    Neg(<<17493,7206,31164>>, -45), Neg(<<11571,5631,16816,60>>, -51),
    Neg(<<11547,1188,18393,240>>, -53), Neg(<<14341,7679,32656,238>>, -53),
    Neg(<<31083,24165,21950,29>>, -50), Neg(<<18023,21253,23857,14>>, -49),
    Neg(<<32663,24062,28430,233>>, -53), Neg(<<22375,24667,484,232>>, -53),
    Neg(<<7269,15190,1495,115>>, -52), Neg(<<5687,7485,1600,114>>, -52),
    Neg(<<9993,7898,1133,226>>, -53), Neg(<<14789,28582,29577,223>>, -53),
    Neg(<<9813,26712,27893,110>>, -52), Neg(<<30063,7798,23508,109>>, -52),
    Neg(<<10567,1435,3287,217>>, -53), Neg(<<6127,10414,11463,107>>, -52),
    Neg(<<15273,26324,1913,53>>, -51), Neg(<<1863,12843,23033,209>>, -53),
    Neg(<<29865,14127,3550,207>>, -53), Neg(<<15627,3746,7384,102>>, -52),
    Neg(<<17981,19070,19928,12>>, -49), Neg(<<8999,27179,31108,198>>, -53),
    Neg(<<10269,8911,1759,98>>, -52), Neg(<<7225,26946,6738,193>>, -53),
    Neg(<<16069,20583,8030,190>>, -53), Neg(<<27009,16784,7423,187>>, -53),
    Neg(<<19769,19786,4947,184>>, -53), Neg(<<7655,26239,16700,90>>, -52),
    Neg(<<29459,25024,27280,177>>, -53), Neg(<<7209,29465,19384,174>>, -53),
    Neg(<<3031,11716,9746,171>>, -53), Neg(<<20437,624,31166,167>>, -53),
    Neg(<<5663,9336,18141,164>>, -53), Neg(<<31425,2192,3474,161>>, -53),
    Neg(<<14631,27759,22975,19>>, -50), Neg(<<24411,5205,1059,77>>, -52),
    Neg(<<10963,12359,23012,4>>, -48), Neg(<<4703,31806,23228,36>>, -51),
    Neg(<<8145,4226,31034,8>>, -49), Neg(<<7623,27576,28078,34>>, -51),
    Neg(<<23851,32089,21604,135>>, -53), Neg(<<28555,8445,30306,65>>, -52),
    Neg(<<1,0,0,32>>, -51), Neg(<<20597,28143,3645,124>>, -53),
    Neg(<<20601,26696,12105,240>>, -54), Neg(<<14209,5538,3630,58>>, -52),
    Neg(<<1487,13692,14615,224>>, -54), Neg(<<6223,28271,12469,216>>, -54),
    Neg(<<25005,9248,510,13>>, -50), Neg(<<32685,17713,1780,200>>, -54),
    Neg(<<5767,24011,26167,191>>, -54), Neg(<<21317,16285,15872,183>>, -54),
    Neg(<<3059,26900,3745,175>>, -54), Neg(<<13175,26624,22043,41>>, -52),
    Neg(<<26963,28255,7100,158>>, -54), Neg(<<21967,7943,22751,149>>, -54),
    Neg(<<3621,14949,4139,141>>, -54), Neg(<<1679,806,16887,132>>, -54),
    Neg(<<23697,29412,28311,123>>, -54), Neg(<<18049,28059,11464,230>>, -55),
    Neg(<<22793,22660,29542,212>>, -55), Neg(<<12581,23926,22747,97>>, -54),
    Neg(<<29579,31766,26729,177>>, -55), Neg(<<10687,26536,3094,80>>, -54),
    Neg(<<7721,11547,16818,142>>, -55), Neg(<<25281,6302,19281,249>>, -56),
    Neg(<<2797,9935,24880,26>>, -53), Neg(<<269,29061,16218,178>>, -56),
    Neg(<<10565,31595,7608,2>>, -50), Neg(<<18779,4575,12061,214>>, -57),
    Neg(<<28169,18935,15537,71>>, -56), Neg(<<30539,5572,24331,35>>, -56),
    Neg(<<23559,26152,6296,141>>, -104)
>>
CosDeg(a) == CosTable[a - MinAngle + 1]
SinDeg(a) == SinTable[a - MinAngle + 1]

\* -------------------------------------------------------- 3D math helpers
\* lines 39-41, 44-46, 49-51: the three planar rotations of rotate_point;
\* a point is [x, y, z], each coordinate a double
YawTurn(p, yaw) ==
    [x |-> FSub(FMul(p.x, CosDeg(yaw)), FMul(p.z, SinDeg(yaw))),
     y |-> p.y,
     z |-> FAdd(FMul(p.x, SinDeg(yaw)), FMul(p.z, CosDeg(yaw)))]
PitchTurn(p, pitch) ==
    [x |-> p.x,
     y |-> FSub(FMul(p.y, CosDeg(pitch)), FMul(p.z, SinDeg(pitch))),
     z |-> FAdd(FMul(p.y, SinDeg(pitch)), FMul(p.z, CosDeg(pitch)))]
RollTurn(p, roll) ==
    [x |-> FSub(FMul(p.x, CosDeg(roll)), FMul(p.y, SinDeg(roll))),
     y |-> FAdd(FMul(p.x, SinDeg(roll)), FMul(p.y, CosDeg(roll))),
     z |-> p.z]

\* lines 32-53: rotate_point
RotatePitchFirst(p, pitch, yaw, roll) ==
    RollTurn(YawTurn(PitchTurn(p, pitch), yaw), roll)
Rotate(p, pitch, yaw, roll) ==
    RollTurn(PitchTurn(YawTurn(p, yaw), pitch), roll)

\* lines 25-30: project_3d_point; <<>> stands for the ZeroDivisionError of
\* line 27
ProjectBy(x, y, width, height, scale, factor) ==
    IF IsError(factor) THEN <<>>
    ELSE <<Trunc(FAdd(FMul(FMul(x, factor), D(scale)), FDiv(D(width), D(2)))),
           Trunc(FAdd(FMul(FMul(FNeg(y), factor), D(scale)),
                      FDiv(D(height), D(2))))>>
Project(x, y, z, width, height, scale) ==
    ProjectBy(x, y, width, height, scale, FDiv(D(300), FAdd(z, D(400))))

\* lines 128-129: the cube
Vertices == <<<<-1, -1, -1>>, <<1, -1, -1>>, <<1, 1, -1>>, <<-1, 1, -1>>,
              <<-1, -1, 1>>, <<1, -1, 1>>, <<1, 1, 1>>, <<-1, 1, 1>>>>
Point(v) == [x |-> D(v[1]), y |-> D(v[2]), z |-> D(v[3])]

\* line 137: tx, ty, tz = rx + x/10, ry + y/10, rz - 5
TranslateWithZ(r, x, y, z) ==
    [x |-> FAdd(r.x, FDiv(D(x), D(10))), y |-> FAdd(r.y, FDiv(D(y), D(10))),
     z |-> FSub(FAdd(r.z, FDiv(D(z), D(10))), D(5))]
Translate(r, x, y, z) ==
    [x |-> FAdd(r.x, FDiv(D(x), D(10))), y |-> FAdd(r.y, FDiv(D(y), D(10))),
     z |-> FSub(r.z, D(5))]

\* lines 132-139: proj_points for the pose <<x, y, z, yaw, pitch, roll>>
Projected(t) == Project(t.x, t.y, t.z, WINDOW_WIDTH, WINDOW_HEIGHT, BOX_SCALE)
Wireframe(p) ==
    [i \in 1..8 |->
        Projected(Translate(Rotate(Point(Vertices[i]), p[5], p[4], p[6]),
                            p[1], p[2], p[3]))]

\* The wireframes of the poses of the tracked, view and scene sessions,
\* computed once.
StartPose == <<0, 0, 0, 0, 0, 0>>
TabledPoses ==
    {StartPose} \cup Payloads \cup ScenePoses
      \cup UNION {Twins(p) : p \in ViewPayloads \cup {StartPose}}
WireframeTable == [p \in TabledPoses |-> Wireframe(p)]
WireframeOf(p) ==
    IF p \in TabledPoses THEN WireframeTable[p] ELSE Wireframe(p)

\* ------------------------------------------------------- calibration (2.)
\* line 103: the capture branch is taken on SPACE only while calibrating
CaptureGuardAlways(e, cal) == e.key = "K_SPACE"
CaptureGuard(e, cal) == e.key = "K_SPACE" /\ cal

\* line 105: the corner sample stored for the live yaw and pitch
SampleSwapped(yaw, pitch) == <<pitch, yaw>>
Sample(yaw, pitch) == <<yaw, pitch>>

\* line 107: the test that ends the cycle
FinishCondLate(step) == step > 4
FinishCondEarly(step) == step > 2
FinishCond(step) == step > 3

\* lines 114-118: min and max of one coordinate of the samples
Column(pts, i) == {pts[k][i] : k \in 1..Len(pts)}
MinOf(S) == CHOOSE m \in S : \A v \in S : m <= v
MaxOf(S) == CHOOSE m \in S : \A v \in S : m >= v

\* lines 99-101: K_c
StartCalibrationKeepsPoints ==
    /\ calibrating' = TRUE
    /\ calib_step' = 0
    /\ UNCHANGED calib_points
    /\ UNCHANGED limits
StartCalibration ==
    /\ calibrating' = TRUE
    /\ calib_step' = 0
    /\ calib_points' = <<>>
    /\ UNCHANGED limits

\* lines 105-121: K_SPACE while calibrating
CaptureClearsTable ==
    LET pts == Append(calib_points, Sample(pose[4], pose[5]))
        step == calib_step + 1
    IN  /\ calib_step' = step
        /\ IF FinishCond(step)
           THEN /\ min_yaw' = MinOf(Column(pts, 1))
                /\ max_yaw' = MaxOf(Column(pts, 1))
                /\ min_pitch' = MinOf(Column(pts, 2))
                /\ max_pitch' = MaxOf(Column(pts, 2))
                /\ calibrating' = FALSE
                /\ calib_points' = <<>>
           ELSE /\ calib_points' = pts
                /\ UNCHANGED <<limits, calibrating>>
Capture ==
    LET pts == Append(calib_points, Sample(pose[4], pose[5]))
        step == calib_step + 1
    IN  /\ calib_points' = pts
        /\ calib_step' = step
        /\ IF FinishCond(step)
           THEN /\ min_yaw' = MinOf(Column(pts, 1))
                /\ max_yaw' = MaxOf(Column(pts, 1))
                /\ min_pitch' = MinOf(Column(pts, 2))
                /\ max_pitch' = MaxOf(Column(pts, 2))
                /\ calibrating' = FALSE
           ELSE UNCHANGED <<limits, calibrating>>

\* ------------------------------------------------------------- gaze (3.)
\* lines 150-151: the coarse range, 1 when max = min
RangeOrOne(mn, mx) == IF mx - mn # 0 THEN mx - mn ELSE 1

\* lines 155-156: norm = (v - min) / range
Normalize(v, mn, rng) == FDiv(FSub(D(v), D(mn)), D(rng))

\* lines 159-160: max(0, min(dim, int(norm * dim)))
ClampNoFloor(v, dim) == Min2(dim, v)
Clamp(v, dim) == Max2(0, Min2(dim, v))

\* int(f * dim); never evaluated on the result of a failed division
PixelClamped(f, dim) ==
    IF IsError(f) THEN 0 ELSE Clamp(Trunc(FMul(f, D(dim))), dim)
Pixel(f, dim) == IF IsError(f) THEN 0 ELSE Trunc(FMul(f, D(dim)))

\* lines 175-176, 180-181: the averaged edges of the corner table
\* (points order TL, TR, BR, BL; Python index k is pts[k + 1])
YawLeftWrongPair(pts) == FDiv(FAdd(D(pts[1][1]), D(pts[2][1])), D(2))
YawLeft(pts) == FDiv(FAdd(D(pts[1][1]), D(pts[4][1])), D(2))
YawRight(pts) == FDiv(FAdd(D(pts[2][1]), D(pts[3][1])), D(2))
PitchTop(pts) == FDiv(FAdd(D(pts[1][2]), D(pts[2][2])), D(2))
PitchBottom(pts) == FDiv(FAdd(D(pts[3][2]), D(pts[4][2])), D(2))

\* lines 184-185: (v - a) / (b - a) if (b - a) != 0 else 0.5
RatioUnguarded(v, a, b) == FDiv(FSub(D(v), a), FSub(b, a))
RatioFallsToZero(v, a, b) ==
    IF FSub(b, a) # D(0) THEN FDiv(FSub(D(v), a), FSub(b, a)) ELSE D(0)
Ratio(v, a, b) ==
    IF FSub(b, a) # D(0) THEN FDiv(FSub(D(v), a), FSub(b, a)) ELSE Half

\* lines 147, 172, 190: the circle drawn, if any.  `coarse` is the value of
\* (screen_gaze_x, screen_gaze_y) after line 160, `corner` after line 188.
NoGaze == <<>>
EmittedGazeDedented(cal, pts, coarse, corner) ==
    IF ~cal THEN (IF Len(pts) = 4 THEN corner ELSE coarse) ELSE NoGaze
EmittedGaze(cal, pts, coarse, corner) ==
    IF ~cal /\ Len(pts) = 4 THEN corner ELSE NoGaze

\* lines 194-204: the prompt label and the marker position
Steps == <<"Top-Left", "Top-Right", "Bottom-Right", "Bottom-Left">>
LabelInRange(step) == step \in -4..3
Label(step) == Steps[(step % 4) + 1]
Marker(step) ==
    IF step = 0 THEN <<20, 20>>
    ELSE IF step = 1 THEN <<WINDOW_WIDTH - 20, 20>>
    ELSE IF step = 2 THEN <<WINDOW_WIDTH - 20, WINDOW_HEIGHT - 20>>
    ELSE IF step = 3 THEN <<20, WINDOW_HEIGHT - 20>>
    ELSE <<0, 0>>

\* lines 150-160 for one coordinate: the range, the normalised value and the
\* clamped pixel
CoarseRecord(rng, norm, dim) ==
    [range |-> rng, norm |-> norm, pixel |-> Clamp(Pixel(norm, dim), dim)]
CoarseOver(v, mn, rng, dim) == CoarseRecord(rng, Normalize(v, mn, rng), dim)
CoarseAxis(v, mn, mx, dim) == CoarseOver(v, mn, RangeOrOne(mn, mx), dim)

\* lines 175-188 for one coordinate: the ratio and the pixel
CornerRecord(r, dim) == [ratio |-> r, pixel |-> Pixel(r, dim)]
CornerX(pts, yaw) ==
    CornerRecord(Ratio(yaw, YawLeft(pts), YawRight(pts)), WINDOW_WIDTH)
CornerY(pts, pitch) ==
    CornerRecord(Ratio(pitch, PitchTop(pts), PitchBottom(pts)), WINDOW_HEIGHT)

\* The same for the yaws, pitches and limits of the tracked and view
\* sessions, computed once.
TabledAngles == {p[4] : p \in {StartPose} \cup Payloads \cup ViewPayloads}
                  \cup {p[5] : p \in {StartPose} \cup Payloads \cup ViewPayloads}
TabledLimits == TabledAngles \cup {DefaultMin, DefaultMax}
TabledCorners == [1..4 -> TabledAngles \X TabledAngles]
CoarseKeys == {<<v, mn, mx, dim>> : v \in TabledAngles, mn \in TabledLimits,
                                    mx \in TabledLimits,
                                    dim \in {WINDOW_WIDTH, WINDOW_HEIGHT}}
CornerKeys == {<<pts, v>> : pts \in TabledCorners, v \in TabledAngles}
CoarseTable == [k \in CoarseKeys |-> CoarseAxis(k[1], k[2], k[3], k[4])]
CornerXTable == [k \in CornerKeys |-> CornerX(k[1], k[2])]
CornerYTable == [k \in CornerKeys |-> CornerY(k[1], k[2])]
CoarseOf(v, mn, mx, dim) ==
    IF <<v, mn, mx, dim>> \in CoarseKeys
    THEN CoarseTable[<<v, mn, mx, dim>>] ELSE CoarseAxis(v, mn, mx, dim)
CornerXOf(pts, yaw) ==
    IF <<pts, yaw>> \in CornerKeys
    THEN CornerXTable[<<pts, yaw>>] ELSE CornerX(pts, yaw)
CornerYOf(pts, pitch) ==
    IF <<pts, pitch>> \in CornerKeys
    THEN CornerYTable[<<pts, pitch>>] ELSE CornerY(pts, pitch)

NoFrame == [proj |-> <<>>, range |-> <<>>, norm |-> <<>>, coarse |-> <<>>,
            ratio |-> <<>>, gaze |-> NoGaze, prompt |-> "", marker |-> <<>>]

\* lines 147-208 as a function of the state the drawing section reads
\* cx, cy: lines 150-160 on each axis; ix, iy: lines 175-188 on each axis
DrawnWith(cal, step, pts, cx, cy, ix, iy) ==
    [proj   |-> <<>>,
     range  |-> IF cal THEN <<>> ELSE <<cx.range, cy.range>>,
     norm   |-> IF cal THEN <<>> ELSE <<cx.norm, cy.norm>>,
     coarse |-> IF cal THEN <<>> ELSE <<cx.pixel, cy.pixel>>,
     ratio  |-> IF ~cal /\ Len(pts) = 4 THEN <<ix.ratio, iy.ratio>> ELSE <<>>,
     gaze   |-> EmittedGaze(cal, pts,
                            IF cal THEN <<>> ELSE <<cx.pixel, cy.pixel>>,
                            IF ~cal /\ Len(pts) = 4
                            THEN <<ix.pixel, iy.pixel>> ELSE <<>>),
     prompt |-> IF cal /\ LabelInRange(step) THEN Label(step) ELSE "",
     marker |-> IF cal THEN Marker(step) ELSE <<>>]
DrawFrame(cal, step, pts, mny, mxy, mnp, mxp, yaw, pitch) ==
    DrawnWith(cal, step, pts,
              CoarseOf(yaw, mny, mxy, WINDOW_WIDTH),
              CoarseOf(pitch, mnp, mxp, WINDOW_HEIGHT),
              CornerXOf(pts, yaw), CornerYOf(pts, pitch))

\* lines 124-208 for the pose p = <<x, y, z, yaw, pitch, roll>> (line 91)
FrameOf(cal, step, pts, mny, mxy, mnp, mxp, p) ==
    [DrawFrame(cal, step, pts, mny, mxy, mnp, mxp, p[4], p[5])
        EXCEPT !.proj = WireframeOf(p)]

\* the exception lines 124-208 raise on that state, "" if none
DrawRaises(f, cal, step) ==
    IF \E i \in 1..Len(f.proj) : f.proj[i] = <<>> THEN "ZeroDivisionError"
    ELSE IF \E i \in 1..Len(f.norm) : IsError(f.norm[i]) THEN "ZeroDivisionError"
    ELSE IF \E i \in 1..Len(f.ratio) : IsError(f.ratio[i]) THEN "ZeroDivisionError"
    ELSE IF cal /\ ~LabelInRange(step) THEN "IndexError"
    ELSE ""

\* ------------------------------------------------------------ frame loop
Init ==
    /\ pose = StartPose
    /\ running = TRUE
    /\ calibrating = FALSE
    /\ calib_step = 0
    /\ calib_points = <<>>
    /\ min_yaw = DefaultMin /\ max_yaw = DefaultMax
    /\ min_pitch = DefaultMin /\ max_pitch = DefaultMax
    /\ pending = <<>>
    /\ data = NoData
    /\ event = NoEvent
    /\ frame = NoFrame
    /\ exc = ""
    /\ pc = "recv"

\* The tracker's datagram reaches the socket buffer, at any point of a frame:
\* the kernel queues it whatever line main() is at.
Arrive(d) ==
    /\ pc \in {"recv", "events", "draw", "flip"}
    /\ Len(pending) < MaxPending
    /\ pending' = Append(pending, d)
    /\ UNCHANGED <<pose, running, calib, limits, data, event, frame, exc, pc>>

\* lines 83-86: recvfrom returns a datagram
RecvThenStop ==
    /\ pc = "recv"
    /\ pending # <<>>
    /\ data' = Received(Head(pending))
    /\ pending' = Tail(pending)
    /\ pose' = IF Accepts(data') THEN Unpack(data') ELSE pose
    /\ pc' = IF Accepts(data') THEN "events" ELSE pc
    /\ UNCHANGED <<running, calib, limits, event, frame, exc>>
Recv ==
    /\ pc = "recv"
    /\ pending # <<>>
    /\ data' = Received(Head(pending))
    /\ pending' = Tail(pending)
    /\ pose' = IF Accepts(data') THEN Unpack(data') ELSE pose
    /\ UNCHANGED <<running, calib, limits, event, frame, exc, pc>>

\* lines 83, 87-91: recvfrom raises BlockingIOError, the drain ends
\* (data is not read again before the next recvfrom assigns it)
WouldBlockRaises ==
    /\ pc = "recv"
    /\ pending = <<>>
    /\ exc' = "BlockingIOError"
    /\ pc' = "crashed"
    /\ UNCHANGED <<pose, running, calib, limits, pending, data, event, frame>>
WouldBlock ==
    /\ pc = "recv"
    /\ pending = <<>>
    /\ data' = NoData
    /\ pc' = "events"
    /\ UNCHANGED <<pose, running, calib, limits, pending, event, frame, exc>>

\* lines 94-121: one iteration of the event loop, on the next event of the
\* list pygame.event.get() returned
HandleEvent(e) ==
    /\ pc = "events"
    /\ event' = e
    /\ IF e.type = "QUIT"
       THEN running' = FALSE /\ UNCHANGED <<calib, limits>>
       ELSE /\ UNCHANGED running
            /\ IF e.type = "KEYDOWN"
               THEN IF e.key = "K_c" THEN StartCalibration
                    ELSE IF CaptureGuard(e, calibrating) THEN Capture
                    ELSE UNCHANGED <<calib, limits>>
               ELSE UNCHANGED <<calib, limits>>
    /\ UNCHANGED <<pose, pending, data, frame, exc, pc>>

\* line 94: the event list is exhausted
EndEventsSkipsDraw ==
    /\ pc = "events"
    /\ event' = NoEvent
    /\ pc' = "flip"
    /\ UNCHANGED <<pose, running, calib, limits, pending, data, frame, exc>>
EndEvents ==
    /\ pc = "events"
    /\ event' = NoEvent
    /\ pc' = "draw"
    /\ UNCHANGED <<pose, running, calib, limits, pending, data, frame, exc>>

\* lines 124-208: the drawing section (gaze dot and calibration prompt)
Drawn(f, raised) ==
    IF raised # ""
    THEN /\ exc' = raised
         /\ pc' = "crashed"
         /\ UNCHANGED frame
    ELSE /\ frame' = f
         /\ pc' = "flip"
         /\ UNCHANGED exc
DrawThe(f) == Drawn(f, DrawRaises(f, calibrating, calib_step))
Draw ==
    /\ pc = "draw"
    /\ DrawThe(FrameOf(calibrating, calib_step, calib_points,
                       min_yaw, max_yaw, min_pitch, max_pitch, pose))
    /\ UNCHANGED <<pose, running, calib, limits, pending, data, event>>

\* lines 210-211 and the loop test of line 79; the next frame's fill
\* (line 124) erases what this frame drew
FlipTimesOut ==
    /\ pc = "flip"
    /\ frame' = NoFrame
    /\ pc' = IF running THEN "recv" ELSE "done"
    /\ calibrating' = FALSE
    /\ UNCHANGED <<pose, running, calib_step, calib_points, limits, pending,
                   data, event, exc>>
Flip ==
    /\ pc = "flip"
    /\ frame' = NoFrame
    /\ pc' = IF running THEN "recv" ELSE "done"
    /\ UNCHANGED <<pose, running, calib, limits, pending, data, event, exc>>

Next ==
    \/ \E d \in Datagrams : Arrive(d)
    \/ Recv
    \/ WouldBlock
    \/ \E e \in Events : HandleEvent(e)
    \/ EndEvents
    \/ Draw
    \/ Flip

Spec == Init /\ [][Next]_vars

\* The frame loop with a tracker that also reports positions and roll.
ViewDatagrams == {[words |-> p, extra |-> 0] : p \in ViewPayloads}
NextView ==
    \/ \E d \in ViewDatagrams : Arrive(d)
    \/ Recv
    \/ WouldBlock
    \/ \E e \in Events : HandleEvent(e)
    \/ EndEvents
    \/ Draw
    \/ Flip
SpecView == Init /\ [][NextView]_vars

\* The drawing section alone, on the states a completed calibration leaves
\* when the tracker reports the scene samples: any 4 of them as the table,
\* any as the live pose; and on the quarter table with the quarter pose.
InitGaze ==
    /\ \/ pose \in ScenePoses /\ calib_points \in [1..4 -> SceneSamples]
       \/ pose = QuarterPose /\ calib_points = QuarterTable
    /\ running = TRUE
    /\ calibrating = FALSE
    /\ calib_step = 4
    /\ min_yaw = MinOf(Column(calib_points, 1))
    /\ max_yaw = MaxOf(Column(calib_points, 1))
    /\ min_pitch = MinOf(Column(calib_points, 2))
    /\ max_pitch = MaxOf(Column(calib_points, 2))
    /\ pending = <<>>
    /\ data = NoData
    /\ event = NoEvent
    /\ frame = NoFrame
    /\ exc = ""
    /\ pc = "draw"
NextDraw == Draw \/ Flip
SpecGaze == InitGaze /\ [][NextDraw]_vars

\* The drawing section alone, on the states the first drain leaves when the
\* tracker reports any of the turn angles as yaw, pitch and roll.
InitRotate ==
    /\ pose \in {<<0, 0, 0, w, p, r>> :
                    w \in TurnAngles, p \in TurnAngles, r \in TurnAngles}
    /\ running = TRUE
    /\ calibrating = FALSE
    /\ calib_step = 0
    /\ calib_points = <<>>
    /\ min_yaw = DefaultMin /\ max_yaw = DefaultMax
    /\ min_pitch = DefaultMin /\ max_pitch = DefaultMax
    /\ pending = <<>>
    /\ data = NoData
    /\ event = NoEvent
    /\ frame = NoFrame
    /\ exc = ""
    /\ pc = "draw"
SpecRotate == InitRotate /\ [][NextDraw]_vars

\* The loop of a session in which the user presses nothing: every event list
\* is empty.  recvfrom on the non-blocking socket returns or raises at once
\* and the while loop of line 80 goes on, so neither outcome of the drain is
\* postponed for ever.
NextDrain ==
    \/ \E d \in DrainDatagrams : Arrive(d)
    \/ Recv
    \/ WouldBlock
    \/ EndEvents
    \/ Draw
    \/ Flip
SpecDrain ==
    /\ Init
    /\ [][NextDrain]_vars
    /\ WF_vars(Recv)
    /\ WF_vars(WouldBlock)

\* ------------------------------------------------------------------ claims
\* A step of the event loop: HandleEvent is the only action that starts and
\* ends at "events" with the socket buffer as it was; event' is the event it
\* handled.
Handled(e) == pc = "events" /\ pc' = "events" /\ pending' = pending /\ event' = e
LiveSample == <<pose[4], pose[5]>>
Idle == ~calibrating

\* C1: while Calibrating the step counter is in 0..3 and equals the number of
\* stored samples; Calibrating is left for Idle only by the capture that
\* raises the step counter to 4, with exactly 4 samples stored; the prompt
\* lookup steps[calib_step] never raises IndexError.
C1_StepMatchesSamples ==
    /\ [](calibrating => calib_step \in 0..3 /\ Len(calib_points) = calib_step)
    /\ [](exc # "IndexError")
    /\ [](pc = "flip" /\ calibrating => frame.prompt = Steps[calib_step + 1])
    /\ [][calibrating /\ ~calibrating'
            => /\ Handled(KeySpace)
               /\ calib_step = 3 /\ calib_step' = 4
               /\ Len(calib_points') = 4]_vars
C1_Witness ==
    /\ pc = "events" /\ event = KeySpace
    /\ Idle /\ calib_step = 4 /\ Len(calib_points) = 4

\* C2: a capture while Calibrating appends the live (yaw, pitch) after the
\* samples already stored and advances the step; the fourth one completes the
\* table and leaves the state Idle; nothing but a start or such a capture
\* touches the samples, so the table holds the four captures in order.
C2_CapturesInOrder ==
    /\ [][Handled(KeySpace) /\ calibrating
            => /\ calib_points' = Append(calib_points, LiveSample)
               /\ calib_step' = calib_step + 1
               /\ calibrating' = (Len(calib_points) < 3)]_vars
    /\ [][calib_points' # calib_points
            => Handled(KeyC) \/ (Handled(KeySpace) /\ calibrating)]_vars
    /\ [](Idle /\ calib_points # <<>> => Len(calib_points) = 4)
C2_Witness ==
    /\ pc = "events" /\ event = KeySpace /\ Idle
    /\ Len(calib_points) = 4
    /\ calib_points[4] = LiveSample
    /\ Cardinality({calib_points[k] : k \in 1..4}) = 4

\* C3: a capture trigger handled while Idle changes neither the calibration
\* flag, the step counter, the samples nor the min/max bounds.
C3_IdleCaptureNoOp ==
    [][Handled(KeySpace) /\ Idle => UNCHANGED <<calib, limits>>]_vars
C3_Witness ==
    /\ pc = "events" /\ event = KeySpace
    /\ Idle /\ calib_step = 0 /\ calib_points = <<>>

\* C4: a start trigger in any state gives Calibrating, step 0, no samples; the
\* samples then only grow by one live sample per capture, so the cycle that
\* completes next holds 4 samples captured after that start.
C4_StartRestarts ==
    /\ [][Handled(KeyC)
            => calibrating' /\ calib_step' = 0 /\ calib_points' = <<>>]_vars
    /\ [][calib_points' # calib_points /\ ~Handled(KeyC)
            => calib_points' = Append(calib_points, LiveSample)]_vars
    /\ [][calibrating /\ ~calibrating' => Len(calib_points') = 4]_vars
C4_Witness ==
    /\ pc = "events" /\ event = KeyC
    /\ calibrating /\ calib_step = 0 /\ calib_points = <<>>
    /\ limits # <<DefaultMin, DefaultMax, DefaultMin, DefaultMax>>

\* C5 as stated: once 4 samples are stored they stay stored until 4 new ones
\* replace them in one step.
C5_Original ==
    [][Len(calib_points) = 4
         => calib_points' = calib_points \/ Len(calib_points') = 4]_vars
\* C5 as amended: a completed set of samples is changed only by a start
\* trigger, which empties it; the min/max bounds taken from a completed set
\* change only in the step that completes a cycle, where they become the
\* extrema of its 4 samples.
C5_BoundsReplacedOnCompletion ==
    /\ [][Len(calib_points) = 4 /\ calib_points' # calib_points
            => Handled(KeyC) /\ calib_points' = <<>>]_vars
    /\ [][limits' # limits
            => /\ calibrating /\ ~calibrating' /\ Len(calib_points') = 4
               /\ \A k \in 1..4 : /\ min_yaw' <= calib_points'[k][1]
                                  /\ calib_points'[k][1] <= max_yaw'
                                  /\ min_pitch' <= calib_points'[k][2]
                                  /\ calib_points'[k][2] <= max_pitch'
               /\ \E k \in 1..4 : min_yaw' = calib_points'[k][1]
               /\ \E k \in 1..4 : max_yaw' = calib_points'[k][1]
               /\ \E k \in 1..4 : min_pitch' = calib_points'[k][2]
               /\ \E k \in 1..4 : max_pitch' = calib_points'[k][2]]_vars
C5_Witness ==
    /\ calibrating /\ Len(calib_points) \in 1..3
    /\ limits # <<DefaultMin, DefaultMax, DefaultMin, DefaultMax>>
    /\ \E k \in 1..Len(calib_points) : calib_points[k][1] > max_yaw

\* C6: a gaze point is drawn in a frame exactly when, as the drawing section
\* runs, the state is not Calibrating and 4 samples are stored.
C6_GazeOnlyWithTable ==
    /\ pc = "flip" => (frame.gaze # NoGaze <=> (Idle /\ Len(calib_points) = 4))
    /\ pc # "flip" => frame.gaze = NoGaze
    /\ calibrating => frame.gaze = NoGaze
C6_Witness ==
    /\ pc = "flip" /\ frame.gaze # NoGaze
    /\ Idle /\ Len(calib_points) = 4

InViewport(p) ==
    /\ 0 <= p[1] /\ p[1] <= WINDOW_WIDTH
    /\ 0 <= p[2] /\ p[2] <= WINDOW_HEIGHT
InUnit(f) == FLeq(D(0), f) /\ FLeq(f, D(1))

\* C7 as stated: every emitted gaze point lies in the viewport.
C7_Original == frame.gaze # NoGaze => InViewport(frame.gaze)
\* C7 as amended: the coarse estimate of lines 159-160 is clamped to the
\* viewport; the emitted point is the unclamped corner interpolation, which
\* lies in the viewport whenever both ratios are within 0..1.
C7_CoarseClamped ==
    /\ frame.coarse # <<>> => InViewport(frame.coarse)
    /\ frame.gaze # NoGaze
         => /\ frame.gaze = <<Trunc(FMul(frame.ratio[1], D(WINDOW_WIDTH))),
                              Trunc(FMul(frame.ratio[2], D(WINDOW_HEIGHT)))>>
            /\ InUnit(frame.ratio[1]) /\ InUnit(frame.ratio[2])
                 => InViewport(frame.gaze)
C7_Witness ==
    /\ pc = "flip" /\ frame.gaze # NoGaze
    /\ ~FLeq(D(0), frame.norm[1]) /\ frame.coarse[1] = 0
    /\ InUnit(frame.ratio[1]) /\ InUnit(frame.ratio[2])

\* The ratio each corner is meant to reproduce (TL, TR, BR, BL).
Intended == <<<<D(0), D(0)>>, <<D(1), D(0)>>,
              <<D(1), D(1)>>, <<D(0), D(1)>>>>
NonDegenerate(pts) ==
    /\ pts[2][1] + pts[3][1] # pts[1][1] + pts[4][1]
    /\ pts[3][2] + pts[4][2] # pts[1][2] + pts[2][2]
Aligned(pts) ==
    /\ pts[1][1] = pts[4][1] /\ pts[2][1] = pts[3][1]
    /\ pts[1][2] = pts[2][2] /\ pts[3][2] = pts[4][2]

\* C8 as stated: with nonzero denominators, the pose of a calibration corner
\* maps to that corner's ratio.
C8_Original ==
    pc = "flip" /\ frame.gaze # NoGaze /\ NonDegenerate(calib_points)
      => \A k \in 1..4 : calib_points[k] = LiveSample
                           => frame.ratio = Intended[k]
\* C8 as amended: the same, for tables in which the two left corners have the
\* same yaw, the two right corners the same yaw, the two top corners the same
\* pitch and the two bottom corners the same pitch.
C8_AlignedRoundTrip ==
    pc = "flip" /\ frame.gaze # NoGaze /\ NonDegenerate(calib_points)
                /\ Aligned(calib_points)
      => \A k \in 1..4 : calib_points[k] = LiveSample
                           => frame.ratio = Intended[k]
C8_Witness ==
    /\ pc = "flip" /\ frame.gaze # NoGaze
    /\ NonDegenerate(calib_points) /\ Aligned(calib_points)
    /\ calib_points[3] = LiveSample
    /\ frame.ratio = Intended[3]
    /\ frame.gaze = <<WINDOW_WIDTH, WINDOW_HEIGHT>>

\* n / d in doubles, for the differences n of an angle and a limit and the
\* ranges d the tracked sessions reach.
Differences == {v - mn : v \in TabledAngles, mn \in TabledLimits}
Ranges == {RangeOrOne(mn, mx) : mn \in TabledLimits, mx \in TabledLimits}
Quotient == [k \in {<<n, d>> : n \in Differences, d \in Ranges}
               |-> FDiv(D(k[1]), D(k[2]))]

\* C9: the gaze computation never divides by zero: a zero corner denominator
\* gives the ratio 0.5 for every input, and the coarse division uses a range
\* of 1 when max = min.
C9_NoDivisionByZero ==
    /\ exc # "ZeroDivisionError"
    /\ pc = "flip" /\ frame.gaze # NoGaze
         => /\ calib_points[2][1] + calib_points[3][1]
                 = calib_points[1][1] + calib_points[4][1]
                 => frame.ratio[1] = Half
            /\ calib_points[3][2] + calib_points[4][2]
                 = calib_points[1][2] + calib_points[2][2]
                 => frame.ratio[2] = Half
    /\ pc = "flip" /\ Idle
         => /\ frame.range[1] = (IF max_yaw = min_yaw THEN 1 ELSE max_yaw - min_yaw)
            /\ frame.range[2] = (IF max_pitch = min_pitch THEN 1
                                 ELSE max_pitch - min_pitch)
            /\ ~IsError(frame.norm[1]) /\ ~IsError(frame.norm[2])
            /\ frame.norm[1] = Quotient[<<pose[4] - min_yaw, frame.range[1]>>]
            /\ frame.norm[2] = Quotient[<<pose[5] - min_pitch, frame.range[2]>>]
            /\ frame.range[1] = 1 => frame.norm[1] = D(pose[4] - min_yaw)
            /\ frame.range[2] = 1 => frame.norm[2] = D(pose[5] - min_pitch)
C9_Witness ==
    /\ pc = "flip" /\ frame.gaze # NoGaze
    /\ \A k \in 1..4 : calib_points[k][1] = calib_points[1][1]
    /\ pose[4] # calib_points[1][1]
    /\ frame.ratio[1] = Half
    /\ frame.range[1] = 1
    /\ frame.gaze[1] = 640

\* C10: receiving a datagram whose length is not 48 leaves the pose as it was
\* and raises nothing, and the pose changes in no step but the receipt of a
\* 48-byte datagram (so a frame without data keeps the previous pose).
C10_MalformedIgnored ==
    /\ [][pc = "recv" /\ pending # <<>> /\ pending' = Tail(pending)
            /\ DataLen(Head(pending)) # PacketSize
            => pose' = pose /\ exc' = "" /\ pc' = "recv"]_vars
    /\ [][pose' # pose
            => /\ pc = "recv" /\ pending # <<>>
               /\ DataLen(Head(pending)) = PacketSize
               /\ pose' = Head(pending).words]_vars
C10_Witness ==
    /\ pc = "recv"
    /\ data = [words |-> <<0, 0, 0, 90, 90, 0>>, extra |-> 1]
    /\ pose = <<0, 0, 0, 0, 90, 0>>
    /\ exc = ""

\* The pose the claim expects once the datagrams q are drained, starting from
\* the pose p: the doubles of the last 48-byte datagram of q, or p.
ValidAt(q) == {i \in 1..Len(q) : DataLen(q[i]) = PacketSize}
LastValid(q, p) ==
    IF ValidAt(q) = {} THEN p
    ELSE q[CHOOSE i \in ValidAt(q) : \A j \in ValidAt(q) : j <= i].words

\* C11: the drain takes the pending datagrams in order and the last 48-byte
\* one wins: every receive leaves LastValid(pending, pose) as it was, and the
\* drain ends only with the buffer empty (where LastValid is the pose), so
\* none of the datagrams it started with is left for the next frame.  Nothing
\* is queued elsewhere or dropped: the buffer changes only by a receive of the
\* drain, which takes its oldest datagram, or by an arrival, which adds one
\* at the end and leaves the pose alone; nothing but the drain reads it.
C11_MostRecentWins ==
    /\ [][pc = "recv" /\ pending # <<>> /\ pending' = Tail(pending)
            => /\ LastValid(pending', pose') = LastValid(pending, pose)
               /\ pc' = "recv"]_vars
    /\ [][pc = "recv" /\ pc' # "recv"
            => pending = <<>> /\ pending' = <<>> /\ pose' = pose]_vars
    /\ [][pending' # pending
            => \/ pc = "recv" /\ pending # <<>> /\ pending' = Tail(pending)
               \/ /\ Len(pending') = Len(pending) + 1
                  /\ SubSeq(pending', 1, Len(pending)) = pending
                  /\ pose' = pose]_vars
C11_Witness ==
    /\ pc = "recv"
    /\ DataLen(data) = PacketSize /\ pose = data.words
    /\ Len(pending) = 2
    /\ DataLen(pending[1]) = PacketSize /\ pending[1].words # pose
    /\ DataLen(pending[2]) # PacketSize

\* The pixel the corner interpolation gives for the table pts and the
\* angles yaw and pitch.
CornerGaze(pts, yaw, pitch) ==
    <<CornerXOf(pts, yaw).pixel, CornerYOf(pts, pitch).pixel>>

\* C12: a frame runs drain, events, drawing in that order; the pose changes
\* only in the drain, so a capture stores the yaw and pitch the drain of its
\* own frame left; and the drawing section of the frame in which the table is
\* completed already emits the gaze point of that table.
C12_PhasesInOrder ==
    /\ [][pc' # pc
            => <<pc, pc'>> \in {<<"recv", "events">>, <<"events", "draw">>,
                                <<"draw", "flip">>, <<"flip", "recv">>,
                                <<"flip", "done">>}]_vars
    /\ [][pose' # pose => pc = "recv" /\ pc' = "recv"]_vars
    /\ [][Handled(KeySpace) /\ calibrating
            => /\ calib_points'[Len(calib_points')] = <<pose'[4], pose'[5]>>
               /\ pose' = pose]_vars
    /\ [](pc = "flip" /\ Idle /\ Len(calib_points) = 4
            => frame.gaze = CornerGaze(calib_points, pose[4], pose[5]))
C12_Witness ==
    /\ pc = "flip" /\ Idle /\ Len(calib_points) = 4
    /\ calib_points[4] = LiveSample
    /\ calib_points[3] # calib_points[4]
    /\ frame.gaze = CornerGaze(calib_points, pose[4], pose[5])
    /\ frame.gaze # <<WINDOW_WIDTH \div 2, WINDOW_HEIGHT \div 2>>

Scene == <<<<-20, -20>>, <<20, -20>>, <<20, 20>>, <<-20, 20>>>>
\* avg(a, b)
Avg(a, b) == FDiv(FAdd(D(a), D(b)), D(2))

\* C13: with nonzero denominators the emitted point is
\* (trunc(ratioX * W), trunc(ratioY * H)), ratioX = (yaw - yawLeft) /
\* (yawRight - yawLeft) and ratioY = (pitch - pitchTop) / (pitchBottom -
\* pitchTop) over the pair averages, not clamped; for the corners (-20,-20),
\* (20,-20), (20,20), (-20,20) and yaw 10, pitch -5 the ratios are 3/4 and
\* 3/8 and the pixel is (960, 270).  The ratios and the products are
\* doubles: for the corners (0,0), (90,0), (90,90), (0,90) and yaw 9, pitch 63
\* the pixel is (128, 503), where the exact product 0.7 * 720 is 504.
C13_CornerInterpolation ==
    pc = "flip" /\ frame.gaze # NoGaze /\ NonDegenerate(calib_points)
      => LET pts == calib_points
             yawLeft == Avg(pts[1][1], pts[4][1])
             yawRight == Avg(pts[2][1], pts[3][1])
             pitchTop == Avg(pts[1][2], pts[2][2])
             pitchBottom == Avg(pts[3][2], pts[4][2])
             ratioX == FDiv(FSub(D(pose[4]), yawLeft), FSub(yawRight, yawLeft))
             ratioY == FDiv(FSub(D(pose[5]), pitchTop),
                            FSub(pitchBottom, pitchTop))
         IN  /\ frame.ratio = <<ratioX, ratioY>>
             /\ frame.gaze = <<Trunc(FMul(ratioX, D(WINDOW_WIDTH))),
                                Trunc(FMul(ratioY, D(WINDOW_HEIGHT)))>>
             /\ pts = Scene /\ pose[4] = 10 /\ pose[5] = -5
                  => /\ frame.ratio = <<FDiv(D(3), D(4)), FDiv(D(3), D(8))>>
                     /\ frame.gaze = <<960, 270>>
             /\ pts = QuarterTable /\ pose = QuarterPose
                  => frame.gaze = <<128, 503>>
C13_Witness ==
    /\ pc = "flip" /\ calib_points = Scene
    /\ pose[4] = 10 /\ pose[5] = -5
    /\ frame.ratio = <<FDiv(D(3), D(4)), FDiv(D(3), D(8))>>
    /\ frame.gaze = <<960, 270>>
    /\ frame.gaze = <<(3 * WINDOW_WIDTH) \div 4, (3 * WINDOW_HEIGHT) \div 8>>

FrameAt(p) == FrameOf(calibrating, calib_step, calib_points,
                      min_yaw, max_yaw, min_pitch, max_pitch, p)

\* C14: the gaze is orientation-only.  Two runs with the same triggers and
\* datagrams equal in yaw, pitch and roll stay equal in calibration state,
\* samples and gaze because every step preserves that: (1) what the drawing
\* section computes for the gaze and the prompt is the same for every pose
\* that differs from the current one in x, y, z only, the projected cube
\* moves with x and y, and z changes nothing at all; (2) an event step changes
\* the calibration state to a value fixed by that state, the event and the
\* yaw and pitch alone.
C14_OrientationOnly ==
    /\ [](pc = "flip"
            => \A t \in Twins(pose) :
                 LET g == FrameAt(t)
                 IN  /\ [g EXCEPT !.proj = frame.proj] = frame
                     /\ (t[1] = pose[1] /\ t[2] = pose[2])
                          <=> g.proj = frame.proj)
    /\ [][<<calib, limits>>' # <<calib, limits>>
            => \/ Handled(KeyC) /\ calib' = <<TRUE, 0, <<>>>> /\ limits' = limits
               \/ /\ Handled(KeySpace)
                  /\ calib' = <<calib_step < 3, calib_step + 1,
                                Append(calib_points, <<pose[4], pose[5]>>)>>
                  /\ limits' = IF calib_step < 3 THEN limits
                               ELSE <<MinOf(Column(calib_points', 1)),
                                      MaxOf(Column(calib_points', 1)),
                                      MinOf(Column(calib_points', 2)),
                                      MaxOf(Column(calib_points', 2))>>]_vars
C14_Witness ==
    /\ pc = "flip" /\ frame.gaze # NoGaze
    /\ pose[1] = 5 /\ pose[2] = 5 /\ pose[3] = 50
    /\ FrameAt(<<0, 0, 0, pose[4], pose[5], pose[6]>>).gaze = frame.gaze
    /\ FrameAt(<<0, 0, 0, pose[4], pose[5], pose[6]>>).proj # frame.proj
    /\ FrameAt(<<5, 5, 0, pose[4], pose[5], pose[6]>>) = frame

\* The points the rotation is tried on: the cube, the unit vectors, and a
\* point with three different coordinates.
RotPoints == {Point(Vertices[i]) : i \in 1..8}
             \cup {Point(<<1, 0, 0>>), Point(<<0, 1, 0>>), Point(<<0, 0, 1>>),
                   Point(<<1, 2, 3>>)}
YawOnly(p, yaw) == Rotate(p, 0, yaw, 0)
PitchOnly(p, pitch) == Rotate(p, pitch, 0, 0)
RollOnly(p, roll) == Rotate(p, 0, 0, roll)

\* (1, 0, 0) after a 90 degree yaw and then a 90 degree pitch, and after the
\* pitch and then the yaw.
YawFirst == PitchOnly(YawOnly(Point(<<1, 0, 0>>), 90), 90)
PitchFirst == YawOnly(PitchOnly(Point(<<1, 0, 0>>), 90), 90)

\* C15: Rotate is the yaw-only rotation, then the pitch-only rotation, then
\* the roll-only rotation, for every point and all turn angles, to the last
\* bit, and so is the wireframe drawn; on (1, 0, 0) a 90 degree yaw followed
\* by a 90 degree pitch differs from the pitch followed by the yaw, and Rotate
\* gives the former.
C15_YawPitchRoll ==
    pc = "flip"
      => /\ \A p \in RotPoints :
              Rotate(p, pose[5], pose[4], pose[6])
                = RollOnly(PitchOnly(YawOnly(p, pose[4]), pose[5]), pose[6])
         /\ \A i \in 1..8 :
              frame.proj[i]
                = Projected(Translate(RollOnly(PitchOnly(YawOnly(
                                Point(Vertices[i]), pose[4]), pose[5]), pose[6]),
                              pose[1], pose[2], pose[3]))
         /\ YawFirst # PitchFirst
         /\ YawFirst.y = D(-1) /\ PitchFirst.y = D(0)
         /\ PitchFirst.z = D(1)
         /\ Rotate(Point(<<1, 0, 0>>), 90, 90, 0) = YawFirst
C15_Witness ==
    /\ pc = "flip"
    /\ pose[4] = 90 /\ pose[5] = 90 /\ pose[6] = 90
    /\ Len(frame.proj) = 8
    /\ Rotate(Point(<<1, 0, 0>>), pose[5], pose[4], pose[6])
         = RollOnly(YawFirst, 90)
    /\ RollOnly(PitchFirst, 90) # Rotate(Point(<<1, 0, 0>>), 90, 90, 90)

\* C16: calibration has no timeout: a step that is not the handling of a
\* C key or a SPACE key leaves the calibration flag, the step counter, the
\* stored samples and the four limits unchanged, whatever it does to the pose
\* and whatever datagrams arrive; a stored sample is never altered, only
\* discarded by the next start.
C16_OnlyTriggersMove ==
    /\ [][~(Handled(KeyC) \/ Handled(KeySpace))
            => calib' = calib /\ limits' = limits]_vars
    /\ [][pose' # pose => calib' = calib /\ limits' = limits]_vars
    /\ [][~Handled(KeyC)
            => /\ Len(calib_points') >= Len(calib_points)
               /\ \A i \in 1..Len(calib_points) :
                    calib_points'[i] = calib_points[i]]_vars
C16_Witness ==
    /\ pc = "flip"
    /\ calibrating
    /\ calib_points # <<>>
    /\ calib_points[1] # LiveSample
    /\ frame.prompt = Steps[calib_step + 1]

\* C17: the drain leaves the receive loop only when recvfrom reports that
\* nothing is pending, and then goes to event processing; each receive that
\* returns takes exactly the oldest pending datagram, so a drain over n
\* pending datagrams makes n receives and one more that would block; and
\* unless datagrams keep arriving for ever, every drain ends.
C17_DrainEndsOnWouldBlock ==
    /\ [][pc = "recv" /\ pc' # "recv"
            => pending = <<>> /\ pending' = <<>> /\ pc' = "events"]_vars
    /\ [][pc = "recv" /\ pc' = "recv" /\ Len(pending') <= Len(pending)
            => /\ pending # <<>>
               /\ pending' = Tail(pending)
               /\ data' = Received(Head(pending))]_vars
    /\ [](exc # "BlockingIOError")
    /\ \/ []<><<\E d \in DrainDatagrams : Arrive(d)>>_vars
       \/ (pc = "recv" ~> pc = "events")
C17_Witness ==
    /\ pc = "events"
    /\ pending = <<>>
    /\ data = NoData
    /\ pose # <<0, 0, 0, 0, 0, 0>>

\* No start trigger has been handled yet: the state the program starts in.
NeverStarted == Idle /\ calib_points = <<>>

\* C18: whenever the state is Idle, at the end of a tick or within it, 0 or
\* 4 samples are stored; there are 0 exactly as long as no start trigger has
\* been handled: the program starts Idle with none, stays so until a C key
\* is handled, and is never again Idle with none afterwards; so a frame
\* drawn while Idle is drawn from no table or from a full one.
C18_IdleTableEmptyOrFull ==
    /\ NeverStarted
    /\ [](Idle => Len(calib_points) \in {0, 4})
    /\ [][NeverStarted /\ ~Handled(KeyC) => NeverStarted']_vars
    /\ [][Handled(KeyC) => ~NeverStarted']_vars
    /\ [][~NeverStarted => ~NeverStarted']_vars
    /\ [](pc = "flip" /\ Idle
            => IF calib_points = <<>> THEN frame.gaze = NoGaze
               ELSE Len(calib_points) = 4 /\ frame.gaze # NoGaze)
C18_Witness ==
    /\ pc = "flip"
    /\ Idle
    /\ Len(calib_points) = 4
    /\ calib_step = 4
    /\ frame.gaze # NoGaze
    /\ frame.prompt = ""

\* The four samples stored are one and the same pair.
AllEqual(pts) == \A i \in 1..Len(pts) : pts[i] = pts[1]
Centre == <<Trunc(FMul(Half, D(WINDOW_WIDTH))),
            Trunc(FMul(Half, D(WINDOW_HEIGHT)))>>

\* C19: the pose changes only in the drain, never while events are handled,
\* and each capture appends the live pair, so the captures of one tick append
\* one and the same pair; and whenever the table holds four equal samples,
\* the gaze drawn is (trunc(0.5 * W), trunc(0.5 * H)) whatever the pose is.
C19_SameTickCaptures ==
    /\ [][pose' # pose => pc = "recv" /\ pc' = "recv"]_vars
    /\ [][Handled(KeySpace) /\ calibrating
            => calib_points' = Append(calib_points, LiveSample)]_vars
    /\ [](pc = "events" /\ event = KeySpace /\ calibrating
            => calib_points # <<>>
               /\ calib_points[Len(calib_points)] = LiveSample)
    /\ [](pc = "flip" /\ frame.gaze # NoGaze /\ AllEqual(calib_points)
            => frame.gaze = Centre /\ Centre = <<640, 360>>)
C19_Witness ==
    /\ pc = "flip"
    /\ Idle
    /\ Len(calib_points) = 4
    /\ AllEqual(calib_points)
    /\ calib_points[1] # LiveSample
    /\ frame.gaze = <<640, 360>>

====
